---- MODULE Spec2Model ----
(***************************************************************************)
(* Model of the mail-platform panel: the Mail Backend Control API          *)
(* (MailServerApi), the panel routes that call it, and the abuse           *)
(* detection worker (RateLimitWorker).                                     *)
(*                                                                         *)
(* Time is counted in seconds (Date.getTime() / 1000).  A nullable column  *)
(* or a nullable JavaScript value is the empty tuple when it is NULL and a *)
(* one-element tuple when it is set.                                       *)
(***************************************************************************)
EXTENDS Integers, Sequences, FiniteSets, TLC

\* ------------------------------------------------------------------ bounds
MaxLines == 2
MaxOps == 2
MaxDomainOps == 2
MaxTicks == 1
MaxApiCalls == 5
MaxFiles == 2
MaxStorageCalls == 2

\* --------------------------------------------------------- program constants
MinuteSecs == 60
WindowDays == 7
JournalSinceSecs == 120
BcryptCost == 12
MinPasswordLen == 8

WindowSecs == WindowDays * 24 * 60 * MinuteSecs

Null == << >>
Some(v) == << v >>

\* ------------------------------------------------------------------- inputs
ExampleDomain == "example.com"
OpsEmail == "ops@example.com"
Domains == {ExampleDomain}
Emails == {OpsEmail}
Admin == "admin"
DefaultBucket == "ratelimit"


\* a second domain, more mailboxes, and malformed names, for direct Control
\* API calls
OtherDomain == "example.org"
DevEmail == "dev@example.com"
OtherEmail == "ops@example.org"
OtherDevEmail == "dev@example.org"
BadDomain == "bad_domain"
BadEmail == "not-an-email"
ApiDomains == {ExampleDomain, OtherDomain}
DomainNames == ApiDomains \cup {BadDomain}
ApiEmails == {OpsEmail, DevEmail, OtherEmail, OtherDevEmail}

DomainOf(email) ==
  IF email \in {OpsEmail, DevEmail} THEN ExampleDomain
  ELSE IF email \in {OtherEmail, OtherDevEmail} THEN OtherDomain ELSE "unknown"
LocalPartOf(email) ==
  IF email \in {OpsEmail, OtherEmail} THEN "ops"
  ELSE IF email \in {DevEmail, OtherDevEmail} THEN "dev" ELSE "unknown"

VARIABLES
  now,               \* wall clock, NOW() and new Date()
  log,               \* lines of the rspamd log sources, in the order written
  timer,             \* RateLimitWorker.timer is set
  intervals,         \* number of live setInterval timers of the worker
  running,           \* RateLimitWorker.running
  wpc,               \* position of the run in flight inside processEvent
  queue,             \* events of the run in flight still to process (head = current)
  loc,               \* locals of the processEvent call in flight
  rate_limit_events, \* table rate_limit_events, in id order
  mailbox_state,     \* table mailbox_state, by email
  mail_users,        \* table mail_users, by email
  mail_domains,      \* table mail_domains, by domain_name
  managed_domains,   \* table managed_domains, by domain_name
  audit_logs,        \* table audit_logs, in id order
  keyFiles,          \* DKIM private key files, by domain: the key generation number
  keyGen,            \* number of RSA key pairs generated so far
  selectorMap,       \* lines of the DKIM selector map file
  maildir,           \* mailbox storage roots, by email: the files below the root
  mailboxStatsCmd,   \* MailServerApi.mailboxStatsCmd ("" when unset)
  mailboxPurgeCmd,   \* MailServerApi.mailboxPurgeCmd ("" when unset)
  setActiveCalls,    \* observation: worker calls of setMailboxActive(email, false), by email
  hashArgs,          \* the pair of events handed to buildEventHash
  hashRes,           \* the pair of hashes returned for hashArgs
  lastRun,           \* observation: how the latest runOnce invocation answered
  reply,             \* observation: the latest direct Control API call and its outcome
  apiCalls           \* number of direct Control API calls so far

workerVars == << timer, intervals, running, wpc, queue, loc >>
dbVars == << rate_limit_events, mailbox_state, mail_users, mail_domains, managed_domains, audit_logs >>
storageVars == << maildir, mailboxStatsCmd, mailboxPurgeCmd >>
fsVars == << keyFiles, keyGen, selectorMap, storageVars >>
obsVars == << setActiveCalls >>
hashVars == << hashArgs, hashRes >>
apiVars == << reply, apiCalls >>
vars == << now, log, workerVars, dbVars, fsVars, obsVars, hashVars, lastRun, apiVars >>

NoRow == [present |-> FALSE]

\* JavaScript a || b on nullable strings (null and "" are falsy)
OrElse(a, b) == IF a = Null \/ a = Some("") THEN b ELSE a

\* ------------------------------------------------------------ configuration
\* ENABLE_FILE_LOG_INGEST (default true); ENABLE_JOURNAL_LOG_INGEST=true, the
\* deployment that reads both sources (the code's default reads the file only)
enableFileLogIngest == TRUE
enableJournalIngest == TRUE
skipRspamdReload == FALSE
dkimSelector == "mail"

\* ---------------------------------------------------------------- the clock
\* The clock advances by a minute, or by the rolling window and a minute; at
\* most MaxTicks minutes and MaxTicks windows pass.
Larger(a, b) == IF a >= b THEN a ELSE b
TicksUsed(t) == Larger(t \div WindowSecs, (t % WindowSecs) \div MinuteSecs)
TickSteps == {MinuteSecs, WindowSecs + MinuteSecs}

Tick(d) ==
  /\ TicksUsed(now + d) <= MaxTicks
  /\ now' = now + d
  /\ UNCHANGED << log, workerVars, dbVars, fsVars, obsVars, hashVars, lastRun, apiVars >>

\* ------------------------------------------------------- the rspamd log sources
\* A line as the worker's regular expressions see it: the mailbox address, the
\* bucket name, qid and message id when the line carries them, the leading
\* token when it parses as a date, the source that holds the line and, in the
\* journal, the time journald recorded it.
LogLine(email, bucket, qid, mid, tok, src) ==
  [email |-> email, bucket |-> bucket, qid |-> qid, mid |-> mid, tok |-> tok,
   at |-> IF src = "journal" THEN Some(now) ELSE Null, src |-> src]

AppendLine(email, bucket, qid, mid, stamped, src) ==
  /\ Len(log) < MaxLines
  /\ log' = Append(log, LogLine(email, bucket, qid, mid,
                                IF stamped THEN Some(now) ELSE Null, src))
  /\ UNCHANGED << now, workerVars, dbVars, fsVars, obsVars, hashVars, lastRun, apiVars >>

\* ------------------------------------------------------------ RateLimitWorker
extractTimestamp(line) == IF line.tok = Null THEN now ELSE line.tok[1]

parseRatelimitLine(i) ==
  [userEmail |-> log[i].email,
   bucketName |-> OrElse(log[i].bucket, Some(DefaultBucket))[1],
   action |-> "ratelimited",
   qid |-> log[i].qid,
   messageId |-> log[i].mid,
   eventTime |-> extractTimestamp(log[i]),
   source |-> "rspamd_log",
   rawEvent |-> i]

\* tail -n 1000 of the log file keeps every line of a log of at most MaxLines
\* lines; journalctl --since "-2 min" keeps the lines written in the last two minutes
Collected(i, src) ==
  /\ log[i].src = src
  /\ (src = "journal" => log[i].at[1] >= now - JournalSinceSecs)

RECURSIVE parseLines(_, _)
parseLines(i, src) ==
  IF i > Len(log) THEN << >>
  ELSE (IF Collected(i, src) THEN << parseRatelimitLine(i) >> ELSE << >>)
         \o parseLines(i + 1, src)

collectFromRspamdFile == parseLines(1, "file")
collectFromJournald == parseLines(1, "journal")

CollectEvents ==
  (IF enableFileLogIngest THEN collectFromRspamdFile ELSE << >>)
    \o (IF enableJournalIngest THEN collectFromJournald ELSE << >>)

\* variant: the minute nearest to t
MinuteRounded(t) == (t + MinuteSecs \div 2) \div MinuteSecs

Minute(t) == t \div MinuteSecs

HashSeed(event) ==
  event.userEmail \o "|" \o event.bucketName \o "|" \o ToString(Minute(event.eventTime))
    \o "|" \o OrElse(event.messageId, OrElse(event.qid, Some("none")))[1]
    \o "|" \o event.action

\* variant: the seed also takes in the raw line
buildEventHashOfLine(event) == HashSeed(event) \o "|" \o ToString(event.rawEvent)

buildEventHash(event) == HashSeed(event)

\* ---------------------------------------------------------------- audit_logs
AuditRow(actor, action, targetType, targetId, status, details) ==
  [actor |-> actor, action |-> action, target_type |-> targetType,
   target_id |-> targetId, status |-> status, details |-> details]

auditLog(actor, action, targetType, targetId, status, details) ==
  audit_logs' = Append(audit_logs, AuditRow(actor, action, targetType, targetId, status, details))

\* ------------------------------------------------ MailServerApi: validation
\* DOMAIN_REGEX and EMAIL_REGEX accept exactly the well-formed names considered
WellFormedDomains == ApiDomains
WellFormedEmails == ApiEmails
DOMAIN_REGEX(domain) == domain \in WellFormedDomains
EMAIL_REGEX(email) == email \in WellFormedEmails

\* ------------------------------------------------- MailServerApi: mailbox rows
\* Each operation yields [ok, err, users]: whether it returned or threw, the
\* error message, and table mail_users afterwards.
Ok(users) == [ok |-> TRUE, err |-> Null, users |-> users]
Threw(msg) == [ok |-> FALSE, err |-> Some(msg), users |-> mail_users]

\* variant: sets the active flag and leaves disabled_at alone
setMailboxActiveFlagOnly(email, enabled) ==
  IF ~EMAIL_REGEX(email) THEN Threw("Invalid mailbox")
  ELSE IF ~mail_users[email].present THEN Threw("Mailbox not found")
  ELSE Ok([mail_users EXCEPT ![email].active = enabled])

\* variant: stamps disabled_at and leaves the active flag alone
setMailboxActiveStampOnly(email, enabled) ==
  IF ~EMAIL_REGEX(email) THEN Threw("Invalid mailbox")
  ELSE IF ~mail_users[email].present THEN Threw("Mailbox not found")
  ELSE Ok([mail_users EXCEPT ![email].disabled_at = IF enabled THEN Null ELSE Some(now)])

setMailboxActive(email, enabled) ==
  IF ~EMAIL_REGEX(email) THEN Threw("Invalid mailbox")
  ELSE IF ~mail_users[email].present THEN Threw("Mailbox not found")
  ELSE Ok([mail_users EXCEPT ![email].active = enabled,
                             ![email].disabled_at = IF enabled THEN Null ELSE Some(now)])

\* ----------------------------------------------- RateLimitWorker.processEvent
NoLoc == [eventHash |-> Null, disableStatus |-> Null, disableError |-> Null]

EventRow(event, h) ==
  [event_hash |-> h, user_email |-> event.userEmail, bucket_name |-> event.bucketName,
   action |-> event.action, qid |-> event.qid, message_id |-> event.messageId,
   source |-> event.source, event_time |-> event.eventTime, raw_event |-> event.rawEvent,
   warned_at |-> Null, disabled_at |-> Null]

\* INSERT ... ON CONFLICT (event_hash) DO NOTHING
InsertEventRow(table, event, h) ==
  IF \E i \in DOMAIN table : table[i].event_hash = h
  THEN table
  ELSE Append(table, EventRow(event, h))

\* SELECT COUNT(*) ... WHERE user_email = $1 AND event_time >= NOW() - window
InWindow(t) == t >= now - WindowSecs
WindowCount(table, email) ==
  Cardinality({i \in DOMAIN table : table[i].user_email = email /\ InWindow(table[i].event_time)})

\* variant: the conflict arm leaves warn_count alone
UpsertWarningKeepCount(row) ==
  IF ~row.present
  THEN [present |-> TRUE, status |-> "warning", warn_count |-> 1,
        last_warn_at |-> Some(now), disabled_at |-> Null]
  ELSE [row EXCEPT !.status = "warning", !.last_warn_at = Some(now)]

\* variant: the conflict arm starts the count again at one
UpsertWarningRestart(row) ==
  IF ~row.present
  THEN [present |-> TRUE, status |-> "warning", warn_count |-> 1,
        last_warn_at |-> Some(now), disabled_at |-> Null]
  ELSE [row EXCEPT !.status = "warning", !.warn_count = 1, !.last_warn_at = Some(now)]

\* INSERT INTO mailbox_state ... 'warning', 1 ... ON CONFLICT DO UPDATE
UpsertWarning(row) ==
  IF ~row.present
  THEN [present |-> TRUE, status |-> "warning", warn_count |-> 1,
        last_warn_at |-> Some(now), disabled_at |-> Null]
  ELSE [row EXCEPT !.status = "warning", !.warn_count = @ + 1, !.last_warn_at = Some(now)]

\* variant: the conflict arm does not stamp disabled_at
UpsertDisabledNoStamp(row) ==
  IF ~row.present
  THEN [present |-> TRUE, status |-> "disabled", warn_count |-> 0,
        last_warn_at |-> Null, disabled_at |-> Some(now)]
  ELSE [row EXCEPT !.status = "disabled"]

\* INSERT INTO mailbox_state ... 'disabled', NOW() ... ON CONFLICT DO UPDATE
UpsertDisabled(row) ==
  IF ~row.present
  THEN [present |-> TRUE, status |-> "disabled", warn_count |-> 0,
        last_warn_at |-> Null, disabled_at |-> Some(now)]
  ELSE [row EXCEPT !.status = "disabled", !.disabled_at = Some(now)]

\* variant: the UPDATE matches every row of the event's mailbox
StampWarnedEveryRow(table, h) ==
  LET emails == {table[j].user_email : j \in {k \in DOMAIN table : table[k].event_hash = h}}
  IN [i \in DOMAIN table |->
        IF table[i].user_email \in emails
        THEN [table[i] EXCEPT !.warned_at = Some(now)] ELSE table[i]]

StampWarned(table, h) ==
  [i \in DOMAIN table |->
     IF table[i].event_hash = h THEN [table[i] EXCEPT !.warned_at = Some(now)] ELSE table[i]]

\* variant: the UPDATE matches no row
StampDisabledNoRow(table, h) == table

StampDisabled(table, h) ==
  [i \in DOMAIN table |->
     IF table[i].event_hash = h THEN [table[i] EXCEPT !.disabled_at = Some(now)] ELSE table[i]]

AlreadyDisabled(row) == row.present /\ row.status = "disabled"

\* processEvent returned: the loop of runOnce takes the next event, or the run
\* ends and the finally clause releases the flag.
EventDone ==
  /\ queue' = Tail(queue)
  /\ loc' = NoLoc
  /\ wpc' = IF Tail(queue) = << >> THEN "idle" ELSE "insert"
  /\ running' = (Tail(queue) # << >>)
  /\ UNCHANGED << timer, intervals >>

StepTo(pc) ==
  /\ wpc' = pc
  /\ UNCHANGED << timer, intervals, running, queue >>

InsertEvent ==
  /\ wpc = "insert"
  /\ LET event == Head(queue)
         h == buildEventHash(event)
         table == InsertEventRow(rate_limit_events, event, h)
     IN /\ rate_limit_events' = table
        /\ IF Len(table) = Len(rate_limit_events)
           THEN EventDone
           ELSE StepTo("count") /\ loc' = [NoLoc EXCEPT !.eventHash = Some(h)]
  /\ UNCHANGED << now, log, mailbox_state, mail_users, mail_domains, managed_domains,
                  audit_logs, fsVars, setActiveCalls, hashVars, lastRun, apiVars >>

CountBranch(count) ==
  IF count = 1 THEN "warn_state" ELSE IF count >= 2 THEN "sel_state" ELSE "return"

CountEvents ==
  /\ wpc = "count"
  /\ LET pc == CountBranch(WindowCount(rate_limit_events, Head(queue).userEmail))
     IN IF pc = "return" THEN EventDone ELSE StepTo(pc) /\ UNCHANGED loc
  /\ UNCHANGED << now, log, dbVars, fsVars, setActiveCalls, hashVars, lastRun, apiVars >>

WarnState ==
  /\ wpc = "warn_state"
  /\ LET email == Head(queue).userEmail
     IN mailbox_state' = [mailbox_state EXCEPT ![email] = UpsertWarning(@)]
  /\ StepTo("warn_stamp")
  /\ UNCHANGED << now, log, loc, rate_limit_events, mail_users, mail_domains,
                  managed_domains, audit_logs, fsVars, setActiveCalls, hashVars, lastRun, apiVars >>

WarnStamp ==
  /\ wpc = "warn_stamp"
  /\ rate_limit_events' = StampWarned(rate_limit_events, loc.eventHash[1])
  /\ StepTo("warn_audit")
  /\ UNCHANGED << now, log, loc, mailbox_state, mail_users, mail_domains,
                  managed_domains, audit_logs, fsVars, setActiveCalls, hashVars, lastRun, apiVars >>

WarnAudit ==
  /\ wpc = "warn_audit"
  /\ auditLog("system-worker", "mailbox_warned", "mailbox", Head(queue).userEmail, "warning",
              [reason |-> "ratelimit_first_hit", bucket |-> Head(queue).bucketName])
  /\ EventDone
  /\ UNCHANGED << now, log, rate_limit_events, mailbox_state, mail_users, mail_domains,
                  managed_domains, fsVars, setActiveCalls, hashVars, lastRun, apiVars >>

SelectState ==
  /\ wpc = "sel_state"
  /\ IF AlreadyDisabled(mailbox_state[Head(queue).userEmail])
     THEN EventDone
     ELSE StepTo("set_active") /\ UNCHANGED loc
  /\ UNCHANGED << now, log, dbVars, fsVars, setActiveCalls, hashVars, lastRun, apiVars >>

\* variant: the call disables every mailbox of the offender's domain
SetActiveWholeDomain(dbFails) ==
  /\ wpc = "set_active"
  /\ LET email == Head(queue).userEmail
     IN /\ mail_users' = [e \in DOMAIN mail_users |->
                            IF mail_users[e].present
                               /\ mail_users[e].domain_name = DomainOf(email)
                            THEN [mail_users[e] EXCEPT !.active = FALSE,
                                                       !.disabled_at = Some(now)]
                            ELSE mail_users[e]]
        /\ loc' = [loc EXCEPT !.disableStatus = Some("success"), !.disableError = Null]
        /\ setActiveCalls' = [setActiveCalls EXCEPT ![email] = @ + 1]
  /\ StepTo("dis_state")
  /\ UNCHANGED << now, log, rate_limit_events, mailbox_state, mail_domains,
                  managed_domains, audit_logs, fsVars, hashVars, lastRun, apiVars >>

\* try { await setMailboxActive(email, false) } catch: the call throws when the
\* mailbox has no row, or when the database refuses the statement
SetActive(dbFails) ==
  /\ wpc = "set_active"
  /\ LET email == Head(queue).userEmail
         res == IF dbFails THEN Threw("database error") ELSE setMailboxActive(email, FALSE)
     IN /\ mail_users' = res.users
        /\ loc' = [loc EXCEPT !.disableStatus = Some(IF res.ok THEN "success" ELSE "error"),
                              !.disableError = res.err]
        /\ setActiveCalls' = [setActiveCalls EXCEPT ![email] = @ + 1]
  /\ StepTo("dis_state")
  /\ UNCHANGED << now, log, rate_limit_events, mailbox_state, mail_domains,
                  managed_domains, audit_logs, fsVars, hashVars, lastRun, apiVars >>

DisableState ==
  /\ wpc = "dis_state"
  /\ LET email == Head(queue).userEmail
     IN mailbox_state' = [mailbox_state EXCEPT ![email] = UpsertDisabled(@)]
  /\ StepTo("dis_stamp")
  /\ UNCHANGED << now, log, loc, rate_limit_events, mail_users, mail_domains,
                  managed_domains, audit_logs, fsVars, setActiveCalls, hashVars, lastRun, apiVars >>

DisableStamp ==
  /\ wpc = "dis_stamp"
  /\ rate_limit_events' = StampDisabled(rate_limit_events, loc.eventHash[1])
  /\ StepTo("dis_audit")
  /\ UNCHANGED << now, log, loc, mailbox_state, mail_users, mail_domains,
                  managed_domains, audit_logs, fsVars, setActiveCalls, hashVars, lastRun, apiVars >>

DisableAudit ==
  /\ wpc = "dis_audit"
  /\ auditLog("system-worker", "mailbox_disabled", "mailbox", Head(queue).userEmail,
              loc.disableStatus[1],
              [reason |-> "ratelimit_second_hit", bucket |-> Head(queue).bucketName,
               error |-> loc.disableError])
  /\ EventDone
  /\ UNCHANGED << now, log, rate_limit_events, mailbox_state, mail_users, mail_domains,
                  managed_domains, fsVars, setActiveCalls, hashVars, lastRun, apiVars >>

\* A pool.query of processEvent (or the audit write) rejects: processEvent and
\* runOnce reject, the finally clause releases the flag, the caller logs the error.
QuerySteps == {"insert", "count", "warn_state", "warn_stamp", "warn_audit",
               "sel_state", "dis_state", "dis_stamp", "dis_audit"}

QueryFails ==
  /\ wpc \in QuerySteps
  /\ wpc' = "idle"
  /\ running' = FALSE
  /\ queue' = << >>
  /\ loc' = NoLoc
  /\ UNCHANGED << now, log, timer, intervals, dbVars, fsVars, obsVars, hashVars, lastRun, apiVars >>

\* -------------------------------------------------- RateLimitWorker scheduling
\* variant: no look at the in-flight flag
runOnceUnguarded ==
  LET events == CollectEvents
  IN /\ lastRun' = "started"
     /\ running' = (events # << >>)
     /\ queue' = events
     /\ wpc' = IF events = << >> THEN "idle" ELSE "insert"
     /\ loc' = NoLoc

runOnce ==
  IF running
  THEN /\ lastRun' = "skipped"
       /\ UNCHANGED << running, wpc, queue, loc >>
  ELSE LET events == CollectEvents
       IN /\ lastRun' = "started"
          /\ running' = (events # << >>)
          /\ queue' = events
          /\ wpc' = IF events = << >> THEN "idle" ELSE "insert"
          /\ loc' = NoLoc

\* variant: no look at the timer field
StartUnguarded ==
  /\ timer' = TRUE
  /\ intervals' = intervals + 1
  /\ runOnce
  /\ UNCHANGED << now, log, dbVars, fsVars, obsVars, hashVars, apiVars >>

Start ==
  /\ IF timer
     THEN UNCHANGED << workerVars, lastRun >>
     ELSE timer' = TRUE /\ intervals' = intervals + 1 /\ runOnce
  /\ UNCHANGED << now, log, dbVars, fsVars, obsVars, hashVars, apiVars >>

Stop ==
  /\ IF timer
     THEN timer' = FALSE /\ intervals' = intervals - 1
     ELSE UNCHANGED << timer, intervals >>
  /\ UNCHANGED << now, log, running, wpc, queue, loc, dbVars, fsVars, obsVars, hashVars, lastRun, apiVars >>

\* a live interval timer calls back
TimerFires ==
  /\ intervals > 0
  /\ runOnce
  /\ UNCHANGED << now, log, timer, intervals, dbVars, fsVars, obsVars, hashVars, apiVars >>

CheckNow ==
  /\ runOnce
  /\ UNCHANGED << now, log, timer, intervals, dbVars, fsVars, obsVars, hashVars, apiVars >>

\* ------------------------------------------------- MailServerApi: key material
KeyPath(domain, selector) == domain \o "." \o selector \o ".key"
PubBody(key) == "MIIB" \o ToString(key)
DkimTxt(key) == "v=DKIM1; k=rsa; p=" \o PubBody(key)

\* variant: a key pair is generated whether or not the file exists
ensureDkimKeyAlways(domain, selector, fsFails) ==
  IF fsFails
  THEN [ok |-> FALSE, files |-> keyFiles, gen |-> keyGen, material |-> Null]
  ELSE [ok |-> TRUE,
        files |-> [keyFiles EXCEPT ![domain] = Some(keyGen + 1)],
        gen |-> keyGen + 1,
        material |-> Some([privateKeyPath |-> KeyPath(domain, selector),
                           dkimTxt |-> DkimTxt(keyGen + 1)])]

\* [ok, files, gen, material]: the key files and the generation counter after
\* the call, and {privateKeyPath, dkimTxt}
ensureDkimKey(domain, selector, fsFails) ==
  IF fsFails
  THEN [ok |-> FALSE, files |-> keyFiles, gen |-> keyGen, material |-> Null]
  ELSE LET fresh == keyFiles[domain] = Null
           key == IF fresh THEN keyGen + 1 ELSE keyFiles[domain][1]
       IN [ok |-> TRUE,
           files |-> [keyFiles EXCEPT ![domain] = Some(key)],
           gen |-> IF fresh THEN keyGen + 1 ELSE keyGen,
           material |-> Some([privateKeyPath |-> KeyPath(domain, selector),
                              dkimTxt |-> DkimTxt(key)])]

ensureDkimSelectorMap(file) == IF file = Null THEN Some(<< >>) ELSE file

RECURSIVE WithoutDomain(_, _)
WithoutDomain(lines, domain) ==
  IF lines = << >> THEN << >>
  ELSE (IF Head(lines)[1] = domain THEN << >> ELSE << Head(lines) >>)
         \o WithoutDomain(Tail(lines), domain)

\* variant: the line is appended without removing the domain's earlier line
updateDkimSelectorMapAppendOnly(file, domain, selector, active) ==
  LET kept == ensureDkimSelectorMap(file)[1]
  IN Some(IF active THEN Append(kept, << domain, selector >>)
          ELSE WithoutDomain(kept, domain))

updateDkimSelectorMap(file, domain, selector, active) ==
  LET kept == WithoutDomain(ensureDkimSelectorMap(file)[1], domain)
  IN Some(IF active THEN Append(kept, << domain, selector >>) ELSE kept)

\* ---------------------------------------------------- MailServerApi: domains
NoDomain == [present |-> FALSE]

\* createDomain as [ok, err, domains, files, gen, map, reloaded]; reloaded tells
\* whether the reload command was run. fault names the step that throws: the
\* key material, the upsert, the rewrite of the selector map, or the reload.
DomainFaults == {"none", "key", "upsert", "map", "reload"}
FaultOf(fsFails, reloadFails) ==
  IF fsFails THEN "key" ELSE IF reloadFails THEN "reload" ELSE "none"

\* variant: the conflict arm of the upsert leaves deleted_at as it is
createDomainKeepDeleted(domain, description, fault) ==
  LET unchanged == [domains |-> mail_domains, files |-> keyFiles, gen |-> keyGen,
                    map |-> selectorMap, reloaded |-> FALSE]
      key == ensureDkimKey(domain, dkimSelector, fault = "key")
      row == [present |-> TRUE, description |-> description, active |-> TRUE,
              dkim_selector |-> dkimSelector,
              dkim_public_key |-> key.material[1].dkimTxt,
              dkim_private_key_path |-> key.material[1].privateKeyPath,
              deleted_at |-> IF mail_domains[domain].present
                             THEN mail_domains[domain].deleted_at ELSE Null]
      reloadFails == fault = "reload"
  IN IF ~DOMAIN_REGEX(domain)
     THEN [ok |-> FALSE, err |-> Some("Invalid domain")] @@ unchanged
     ELSE IF ~key.ok
     THEN [ok |-> FALSE, err |-> Some("key material")] @@ unchanged
     ELSE IF fault = "upsert"
     THEN [ok |-> FALSE, err |-> Some("database error"), domains |-> mail_domains,
           files |-> key.files, gen |-> key.gen, map |-> selectorMap, reloaded |-> FALSE]
     ELSE IF fault = "map"
     THEN [ok |-> FALSE, err |-> Some("selector map"),
           domains |-> [mail_domains EXCEPT ![domain] = row],
           files |-> key.files, gen |-> key.gen,
           map |-> ensureDkimSelectorMap(selectorMap), reloaded |-> FALSE]
     ELSE [ok |-> skipRspamdReload \/ ~reloadFails,
           err |-> IF skipRspamdReload \/ ~reloadFails THEN Null
                   ELSE Some("Failed reloading rspamd"),
           domains |-> [mail_domains EXCEPT ![domain] = row],
           files |-> key.files, gen |-> key.gen,
           map |-> updateDkimSelectorMap(selectorMap, domain, dkimSelector, TRUE),
           reloaded |-> ~skipRspamdReload]

createDomain(domain, description, fault) ==
  LET unchanged == [domains |-> mail_domains, files |-> keyFiles, gen |-> keyGen,
                    map |-> selectorMap, reloaded |-> FALSE]
      key == ensureDkimKey(domain, dkimSelector, fault = "key")
      row == [present |-> TRUE, description |-> description, active |-> TRUE,
              dkim_selector |-> dkimSelector,
              dkim_public_key |-> key.material[1].dkimTxt,
              dkim_private_key_path |-> key.material[1].privateKeyPath,
              deleted_at |-> Null]
      reloadFails == fault = "reload"
  IN IF ~DOMAIN_REGEX(domain)
     THEN [ok |-> FALSE, err |-> Some("Invalid domain")] @@ unchanged
     ELSE IF ~key.ok
     THEN [ok |-> FALSE, err |-> Some("key material")] @@ unchanged
     ELSE IF fault = "upsert"
     THEN [ok |-> FALSE, err |-> Some("database error"), domains |-> mail_domains,
           files |-> key.files, gen |-> key.gen, map |-> selectorMap, reloaded |-> FALSE]
     ELSE IF fault = "map"
     THEN [ok |-> FALSE, err |-> Some("selector map"),
           domains |-> [mail_domains EXCEPT ![domain] = row],
           files |-> key.files, gen |-> key.gen,
           map |-> ensureDkimSelectorMap(selectorMap), reloaded |-> FALSE]
     ELSE [ok |-> skipRspamdReload \/ ~reloadFails,
           err |-> IF skipRspamdReload \/ ~reloadFails THEN Null
                   ELSE Some("Failed reloading rspamd"),
           domains |-> [mail_domains EXCEPT ![domain] = row],
           files |-> key.files, gen |-> key.gen,
           map |-> updateDkimSelectorMap(selectorMap, domain, dkimSelector, TRUE),
           reloaded |-> ~skipRspamdReload]

\* deleteDomain as [ok, err, users, domains, map, reloaded]
\* variant: the mailboxes of the domain are left in place
deleteDomainKeepUsers(domain, reloadFails) ==
  IF ~DOMAIN_REGEX(domain)
  THEN [ok |-> FALSE, err |-> Some("Invalid domain"), users |-> mail_users,
        domains |-> mail_domains, map |-> selectorMap, reloaded |-> FALSE]
  ELSE IF ~mail_domains[domain].present
  THEN [ok |-> FALSE, err |-> Some("Domain not found"), users |-> mail_users,
        domains |-> mail_domains, map |-> selectorMap, reloaded |-> FALSE]
  ELSE [ok |-> skipRspamdReload \/ ~reloadFails,
        err |-> IF skipRspamdReload \/ ~reloadFails THEN Null
                ELSE Some("Failed reloading rspamd"),
        users |-> mail_users,
        domains |-> [mail_domains EXCEPT ![domain].active = FALSE,
                                         ![domain].deleted_at = Some(now)],
        map |-> updateDkimSelectorMap(selectorMap, domain, dkimSelector, FALSE),
        reloaded |-> ~skipRspamdReload]

deleteDomain(domain, reloadFails) ==
  LET users == [e \in DOMAIN mail_users |->
                  IF mail_users[e].present /\ mail_users[e].domain_name = domain
                  THEN [present |-> FALSE] ELSE mail_users[e]]
  IN IF ~DOMAIN_REGEX(domain)
     THEN [ok |-> FALSE, err |-> Some("Invalid domain"), users |-> mail_users,
           domains |-> mail_domains, map |-> selectorMap, reloaded |-> FALSE]
     ELSE IF ~mail_domains[domain].present
     THEN [ok |-> FALSE, err |-> Some("Domain not found"), users |-> users,
           domains |-> mail_domains, map |-> selectorMap, reloaded |-> FALSE]
     ELSE [ok |-> skipRspamdReload \/ ~reloadFails,
           err |-> IF skipRspamdReload \/ ~reloadFails THEN Null
                   ELSE Some("Failed reloading rspamd"),
           users |-> users,
           domains |-> [mail_domains EXCEPT ![domain].active = FALSE,
                                            ![domain].deleted_at = Some(now)],
           map |-> updateDkimSelectorMap(selectorMap, domain, dkimSelector, FALSE),
           reloaded |-> ~skipRspamdReload]

\* --------------------------------------------------- MailServerApi: mailboxes
PasswordHash(password) == << "bcrypt", BcryptCost, password >>

\* variant: the domain check looks for the row only
createMailboxAnyDomainRow(localPart, domain, name, password, quotaMb) ==
  LET email == localPart \o "@" \o domain
  IN IF localPart = "" \/ ~DOMAIN_REGEX(domain) \/ ~EMAIL_REGEX(email)
        \/ Len(password) < MinPasswordLen \/ quotaMb <= 0
     THEN Threw("Invalid mailbox payload")
     ELSE IF ~mail_domains[domain].present
     THEN Threw("Domain not found or inactive")
     ELSE Ok([mail_users EXCEPT ![email] =
                [present |-> TRUE, domain_name |-> domain, local_part |-> localPart,
                 display_name |-> name, password_hash |-> PasswordHash(password),
                 quota_mb |-> quotaMb, active |-> TRUE, disabled_at |-> Null]])

\* variant: the conflict arm leaves active and disabled_at as they are
createMailboxKeepFlag(localPart, domain, name, password, quotaMb) ==
  LET email == localPart \o "@" \o domain
  IN IF localPart = "" \/ ~DOMAIN_REGEX(domain) \/ ~EMAIL_REGEX(email)
        \/ Len(password) < MinPasswordLen \/ quotaMb <= 0
     THEN Threw("Invalid mailbox payload")
     ELSE IF ~(mail_domains[domain].present /\ mail_domains[domain].active
               /\ mail_domains[domain].deleted_at = Null)
     THEN Threw("Domain not found or inactive")
     ELSE Ok([mail_users EXCEPT ![email] =
                [present |-> TRUE, domain_name |-> domain, local_part |-> localPart,
                 display_name |-> name, password_hash |-> PasswordHash(password),
                 quota_mb |-> quotaMb,
                 active |-> IF @.present THEN @.active ELSE TRUE,
                 disabled_at |-> IF @.present THEN @.disabled_at ELSE Null]])

createMailbox(localPart, domain, name, password, quotaMb) ==
  LET email == localPart \o "@" \o domain
  IN IF localPart = "" \/ ~DOMAIN_REGEX(domain) \/ ~EMAIL_REGEX(email)
        \/ Len(password) < MinPasswordLen \/ quotaMb <= 0
     THEN Threw("Invalid mailbox payload")
     ELSE IF ~(mail_domains[domain].present /\ mail_domains[domain].active
               /\ mail_domains[domain].deleted_at = Null)
     THEN Threw("Domain not found or inactive")
     ELSE Ok([mail_users EXCEPT ![email] =
                [present |-> TRUE, domain_name |-> domain, local_part |-> localPart,
                 display_name |-> name, password_hash |-> PasswordHash(password),
                 quota_mb |-> quotaMb, active |-> TRUE, disabled_at |-> Null]])

\* variant: a DELETE that matches no row is not an error
deleteMailboxQuiet(email) ==
  IF ~EMAIL_REGEX(email) THEN Threw("Invalid email")
  ELSE Ok([mail_users EXCEPT ![email] = [present |-> FALSE]])

deleteMailbox(email) ==
  IF ~EMAIL_REGEX(email) THEN Threw("Invalid email")
  ELSE IF ~mail_users[email].present THEN Threw("Mailbox not found")
  ELSE Ok([mail_users EXCEPT ![email] = [present |-> FALSE]])

\* variant: the quota is looked at after the UPDATE
setMailboxQuotaLateCheck(email, quotaMb) ==
  IF ~EMAIL_REGEX(email) THEN Threw("Invalid quota update payload")
  ELSE IF ~mail_users[email].present THEN Threw("Mailbox not found")
  ELSE IF quotaMb <= 0
  THEN [ok |-> FALSE, err |-> Some("Invalid quota update payload"),
        users |-> [mail_users EXCEPT ![email].quota_mb = quotaMb]]
  ELSE Ok([mail_users EXCEPT ![email].quota_mb = quotaMb])

\* the quota is an integer here, so Number.isFinite holds
setMailboxQuota(email, quotaMb) ==
  IF ~EMAIL_REGEX(email) \/ quotaMb <= 0 THEN Threw("Invalid quota update payload")
  ELSE IF ~mail_users[email].present THEN Threw("Mailbox not found")
  ELSE Ok([mail_users EXCEPT ![email].quota_mb = quotaMb])

\* variant: the UPDATE also re-activates the mailbox
resetMailboxPasswordReactivates(email, password) ==
  IF ~EMAIL_REGEX(email) \/ Len(password) < MinPasswordLen
  THEN Threw("Invalid password reset payload")
  ELSE IF ~mail_users[email].present THEN Threw("Mailbox not found")
  ELSE Ok([mail_users EXCEPT ![email].password_hash = PasswordHash(password),
                             ![email].active = TRUE, ![email].disabled_at = Null])

resetMailboxPassword(email, password) ==
  IF ~EMAIL_REGEX(email) \/ Len(password) < MinPasswordLen
  THEN Threw("Invalid password reset payload")
  ELSE IF ~mail_users[email].present THEN Threw("Mailbox not found")
  ELSE Ok([mail_users EXCEPT ![email].password_hash = PasswordHash(password)])

\* Number(quota_mb) * 1024 * 1024, kept as its factors: a JavaScript number
\* holds the product, which is beyond 32 bits for the default quota
MiBytes(mb) == << mb, 1024, 1024 >>

\* emails in ascending order (ORDER BY email ASC)
EmailsAsc == << DevEmail, OtherDevEmail, OpsEmail, OtherEmail >>

\* listMailboxes as the sequence of rows returned
listMailboxes(domainInput) ==
  LET selected(e) == /\ mail_users[e].present
                     /\ (domainInput \in {Null, Some("all")}
                           \/ Some(mail_users[e].domain_name) = domainInput)
      rows == SelectSeq(EmailsAsc, LAMBDA e : e \in DOMAIN mail_users /\ selected(e))
  IN [i \in DOMAIN rows |->
        [username |-> rows[i], local_part |-> mail_users[rows[i]].local_part,
         domain |-> mail_users[rows[i]].domain_name,
         name |-> mail_users[rows[i]].display_name,
         quota |-> MiBytes(mail_users[rows[i]].quota_mb),
         active |-> IF mail_users[rows[i]].active THEN "1" ELSE "0"]]

\* variant: no look at deleted_at
getDkimAnyRow(domain) ==
  IF ~DOMAIN_REGEX(domain) THEN [ok |-> FALSE, err |-> Some("Invalid domain"), value |-> Null]
  ELSE IF ~mail_domains[domain].present
  THEN [ok |-> FALSE, err |-> Some("Domain not found"), value |-> Null]
  ELSE [ok |-> TRUE, err |-> Null,
        value |-> Some([domain |-> domain,
                        dkim_selector |-> OrElse(Some(mail_domains[domain].dkim_selector),
                                                 Some(dkimSelector))[1],
                        dkim_txt |-> OrElse(Some(mail_domains[domain].dkim_public_key),
                                            Some(""))[1]])]

\* getDkim as [ok, err, value]
getDkim(domain) ==
  IF ~DOMAIN_REGEX(domain) THEN [ok |-> FALSE, err |-> Some("Invalid domain"), value |-> Null]
  ELSE IF ~(mail_domains[domain].present /\ mail_domains[domain].deleted_at = Null)
  THEN [ok |-> FALSE, err |-> Some("Domain not found"), value |-> Null]
  ELSE [ok |-> TRUE, err |-> Null,
        value |-> Some([domain |-> domain,
                        dkim_selector |-> OrElse(Some(mail_domains[domain].dkim_selector),
                                                 Some(dkimSelector))[1],
                        dkim_txt |-> OrElse(Some(mail_domains[domain].dkim_public_key),
                                            Some(""))[1]])]

\* ----------------------------------------------------------------- the routes
\* requests of the administrator so far that reached the Control API, by kind of target
AdminOps(targetType) ==
  Cardinality({i \in DOMAIN audit_logs :
                 audit_logs[i].actor = Admin /\ audit_logs[i].target_type = targetType})

\* INSERT INTO mailbox_state ... 'active', 0 ... ON CONFLICT DO UPDATE SET status = 'active'
StateOnCreate(row) ==
  IF ~row.present
  THEN [present |-> TRUE, status |-> "active", warn_count |-> 0,
        last_warn_at |-> Null, disabled_at |-> Null]
  ELSE [row EXCEPT !.status = "active"]

\* variant: the conflict arm resets the status only
StateOnEnableStatusOnly(row) ==
  IF ~row.present
  THEN [present |-> TRUE, status |-> "active", warn_count |-> 0,
        last_warn_at |-> Null, disabled_at |-> Null]
  ELSE [row EXCEPT !.status = "active"]

\* variant: the conflict arm leaves warn_count alone
StateOnEnableKeepCount(row) ==
  IF ~row.present
  THEN [present |-> TRUE, status |-> "active", warn_count |-> 0,
        last_warn_at |-> Null, disabled_at |-> Null]
  ELSE [row EXCEPT !.status = "active", !.disabled_at = Null]

\* INSERT ... 'active', 0, NULL ... ON CONFLICT DO UPDATE SET status, warn_count, disabled_at
StateOnEnable(row) ==
  IF ~row.present
  THEN [present |-> TRUE, status |-> "active", warn_count |-> 0,
        last_warn_at |-> Null, disabled_at |-> Null]
  ELSE [row EXCEPT !.status = "active", !.warn_count = 0, !.disabled_at = Null]

\* INSERT ... 'disabled', NOW() ... ON CONFLICT DO UPDATE SET status, disabled_at
StateOnDisable(row) ==
  IF ~row.present
  THEN [present |-> TRUE, status |-> "disabled", warn_count |-> 0,
        last_warn_at |-> Null, disabled_at |-> Some(now)]
  ELSE [row EXCEPT !.status = "disabled", !.disabled_at = Some(now)]

PostMailboxes(localPart, domain, name, password, quotaMb) ==
  /\ AdminOps("mailbox") < MaxOps
  /\ IF localPart = "" \/ domain = "" \/ name = "" \/ password = "" \/ quotaMb <= 0
     THEN UNCHANGED << mail_users, mailbox_state, audit_logs >>
     ELSE LET email == localPart \o "@" \o domain
              res == createMailbox(localPart, domain, name, password, quotaMb)
          IN /\ mail_users' = res.users
             /\ IF res.ok
                THEN /\ mailbox_state' = [mailbox_state EXCEPT ![email] = StateOnCreate(@)]
                     /\ auditLog(Admin, "mailbox_create", "mailbox", email, "success",
                                 [quotaMb |-> quotaMb, name |-> name])
                ELSE /\ UNCHANGED mailbox_state
                     /\ auditLog(Admin, "mailbox_create", "mailbox", email, "error",
                                 [error |-> res.err])
  /\ UNCHANGED << now, log, workerVars, rate_limit_events, mail_domains, managed_domains,
                  fsVars, obsVars, hashVars, lastRun, apiVars >>

PostMailboxDelete(email) ==
  /\ AdminOps("mailbox") < MaxOps
  /\ IF ~EMAIL_REGEX(email)
     THEN UNCHANGED << mail_users, mailbox_state, audit_logs >>
     ELSE LET res == deleteMailbox(email)
          IN /\ mail_users' = res.users
             /\ IF res.ok
                THEN /\ mailbox_state' = [mailbox_state EXCEPT ![email] = NoRow]
                     /\ auditLog(Admin, "mailbox_delete", "mailbox", email, "success", Null)
                ELSE /\ UNCHANGED mailbox_state
                     /\ auditLog(Admin, "mailbox_delete", "mailbox", email, "error",
                                 [error |-> res.err])
  /\ UNCHANGED << now, log, workerVars, rate_limit_events, mail_domains, managed_domains,
                  fsVars, obsVars, hashVars, lastRun, apiVars >>

PostMailboxEnable(email) ==
  /\ AdminOps("mailbox") < MaxOps
  /\ IF ~EMAIL_REGEX(email)
     THEN UNCHANGED << mail_users, mailbox_state, audit_logs >>
     ELSE LET res == setMailboxActive(email, TRUE)
          IN /\ mail_users' = res.users
             /\ IF res.ok
                THEN /\ mailbox_state' = [mailbox_state EXCEPT ![email] = StateOnEnable(@)]
                     /\ auditLog(Admin, "mailbox_enable", "mailbox", email, "success", Null)
                ELSE /\ UNCHANGED mailbox_state
                     /\ auditLog(Admin, "mailbox_enable", "mailbox", email, "error",
                                 [error |-> res.err])
  /\ UNCHANGED << now, log, workerVars, rate_limit_events, mail_domains, managed_domains,
                  fsVars, obsVars, hashVars, lastRun, apiVars >>

PostMailboxDisable(email) ==
  /\ AdminOps("mailbox") < MaxOps
  /\ IF ~EMAIL_REGEX(email)
     THEN UNCHANGED << mail_users, mailbox_state, audit_logs >>
     ELSE LET res == setMailboxActive(email, FALSE)
          IN /\ mail_users' = res.users
             /\ IF res.ok
                THEN /\ mailbox_state' = [mailbox_state EXCEPT ![email] = StateOnDisable(@)]
                     /\ auditLog(Admin, "mailbox_disable", "mailbox", email, "success", Null)
                ELSE /\ UNCHANGED mailbox_state
                     /\ auditLog(Admin, "mailbox_disable", "mailbox", email, "error",
                                 [error |-> res.err])
  /\ UNCHANGED << now, log, workerVars, rate_limit_events, mail_domains, managed_domains,
                  fsVars, obsVars, hashVars, lastRun, apiVars >>

PostDomains(domain, description, fsFails, reloadFails) ==
  /\ AdminOps("domain") < MaxDomainOps
  /\ IF ~DOMAIN_REGEX(domain)
     THEN UNCHANGED << mail_domains, managed_domains, audit_logs, fsVars >>
     ELSE LET res == createDomain(domain, description, FaultOf(fsFails, reloadFails))
          IN /\ mail_domains' = res.domains
             /\ keyFiles' = res.files
             /\ keyGen' = res.gen
             /\ selectorMap' = res.map
             /\ UNCHANGED storageVars
             /\ IF res.ok
                THEN /\ managed_domains' = [managed_domains EXCEPT ![domain] =
                          [present |-> TRUE, description |-> description,
                           status |-> "active", deleted_at |-> Null]]
                     /\ auditLog(Admin, "domain_add", "domain", domain, "success",
                                 [description |-> description])
                ELSE /\ UNCHANGED managed_domains
                     /\ auditLog(Admin, "domain_add", "domain", domain, "error",
                                 [error |-> res.err])
  /\ UNCHANGED << now, log, workerVars, rate_limit_events, mailbox_state, mail_users,
                  obsVars, hashVars, lastRun, apiVars >>

PostDomainDelete(domain, reloadFails) ==
  /\ AdminOps("domain") < MaxDomainOps
  /\ LET res == deleteDomain(domain, reloadFails)
     IN /\ mail_users' = res.users
        /\ mail_domains' = res.domains
        /\ selectorMap' = res.map
        /\ IF res.ok
           THEN /\ managed_domains' = [managed_domains EXCEPT ![domain] =
                     IF @.present
                     THEN [@ EXCEPT !.status = "deleted", !.deleted_at = Some(now)]
                     ELSE @]
                /\ auditLog(Admin, "domain_delete", "domain", domain, "success", Null)
           ELSE /\ UNCHANGED managed_domains
                /\ auditLog(Admin, "domain_delete", "domain", domain, "error",
                            [error |-> res.err])
  /\ UNCHANGED << now, log, workerVars, rate_limit_events, mailbox_state, keyFiles, keyGen, storageVars,
                  obsVars, hashVars, lastRun, apiVars >>

\* ------------------------------------------- MailServerApi called directly
\* A call of a MailServerApi method by a client of the class. reply records the
\* call: the method, its arguments, the row it aims at as it was before the
\* call, whether it returned, the error message, the value returned, whether
\* the reload command was run, and how many mail_users rows it changed or removed.
DomainRowOf(domain) == IF domain \in DOMAIN mail_domains THEN mail_domains[domain] ELSE NoDomain
MailboxRowOf(email) == IF email \in DOMAIN mail_users THEN mail_users[email] ELSE NoRow

RowsChanged(users) == Cardinality({e \in DOMAIN mail_users : users[e] # mail_users[e]})

Answer(op, args, before, ok, err, value, reloaded, users) ==
  /\ apiCalls < MaxApiCalls
  /\ apiCalls' = apiCalls + 1
  /\ reply' = [op |-> op, args |-> args, before |-> before, ok |-> ok, err |-> err,
               value |-> value, reloaded |-> reloaded, changed |-> RowsChanged(users)]

ApiUnchanged ==
  UNCHANGED << now, log, workerVars, rate_limit_events, mailbox_state, managed_domains,
               audit_logs, obsVars, hashVars, lastRun >>

CallCreateDomain(domain, description, fault) ==
  LET res == createDomain(domain, description, fault)
  IN /\ Answer("createDomain", << domain, description >>, DomainRowOf(domain),
               res.ok, res.err, Null, res.reloaded, mail_users)
     /\ mail_domains' = res.domains
     /\ keyFiles' = res.files
     /\ keyGen' = res.gen
     /\ selectorMap' = res.map
     /\ UNCHANGED storageVars
     /\ UNCHANGED mail_users
     /\ ApiUnchanged

CallDeleteDomain(domain, reloadFails) ==
  LET res == deleteDomain(domain, reloadFails)
  IN /\ Answer("deleteDomain", << domain >>, DomainRowOf(domain),
               res.ok, res.err, Null, res.reloaded, res.users)
     /\ mail_users' = res.users
     /\ mail_domains' = res.domains
     /\ selectorMap' = res.map
     /\ UNCHANGED << keyFiles, keyGen, storageVars >>
     /\ ApiUnchanged

CallCreateMailbox(localPart, domain, name, password, quotaMb) ==
  LET res == createMailbox(localPart, domain, name, password, quotaMb)
  IN /\ apiCalls < MaxApiCalls
     /\ apiCalls' = apiCalls + 1
     /\ reply' = [op |-> "createMailbox",
                  args |-> << localPart, domain, name, password, quotaMb >>,
                  before |-> DomainRowOf(domain),
                  row |-> MailboxRowOf(localPart \o "@" \o domain),
                  ok |-> res.ok, err |-> res.err, value |-> Null, reloaded |-> FALSE,
                  changed |-> RowsChanged(res.users)]
     /\ mail_users' = res.users
     /\ UNCHANGED << mail_domains, fsVars >>
     /\ ApiUnchanged

CallDeleteMailbox(email) ==
  LET res == deleteMailbox(email)
  IN /\ Answer("deleteMailbox", << email >>, MailboxRowOf(email), res.ok, res.err, Null, FALSE, res.users)
     /\ mail_users' = res.users
     /\ UNCHANGED << mail_domains, fsVars >>
     /\ ApiUnchanged

CallSetMailboxQuota(email, quotaMb) ==
  LET res == setMailboxQuota(email, quotaMb)
  IN /\ Answer("setMailboxQuota", << email, quotaMb >>, MailboxRowOf(email),
               res.ok, res.err, Null, FALSE, res.users)
     /\ mail_users' = res.users
     /\ UNCHANGED << mail_domains, fsVars >>
     /\ ApiUnchanged

CallResetMailboxPassword(email, password) ==
  LET res == resetMailboxPassword(email, password)
  IN /\ Answer("resetMailboxPassword", << email, password >>, MailboxRowOf(email),
               res.ok, res.err, Null, FALSE, res.users)
     /\ mail_users' = res.users
     /\ UNCHANGED << mail_domains, fsVars >>
     /\ ApiUnchanged

CallSetMailboxActive(email, enabled) ==
  LET res == setMailboxActive(email, enabled)
  IN /\ Answer("setMailboxActive", << email, enabled >>, MailboxRowOf(email),
               res.ok, res.err, Null, FALSE, res.users)
     /\ mail_users' = res.users
     /\ UNCHANGED << mail_domains, fsVars >>
     /\ ApiUnchanged

CallGetDkim(domain) ==
  LET res == getDkim(domain)
  IN /\ Answer("getDkim", << domain >>, DomainRowOf(domain), res.ok, res.err, res.value, FALSE, mail_users)
     /\ UNCHANGED << mail_users, mail_domains, fsVars >>
     /\ ApiUnchanged

CallListMailboxes(domainInput) ==
  /\ Answer("listMailboxes", << domainInput >>, Null, TRUE, Null,
            Some(listMailboxes(domainInput)), FALSE, mail_users)
  /\ UNCHANGED << mail_users, mail_domains, fsVars >>
  /\ ApiUnchanged

\* updateDkimSelectorMap and ensureDkimSelectorMap called on their own. reply
\* records the call and, by domain, the selector and flag of the latest call
\* for the domain.
LatestMapCall(d) == IF reply.op = "updateDkimSelectorMap" THEN reply.latest[d] ELSE Null

MapUnchanged ==
  UNCHANGED << now, log, workerVars, dbVars, keyFiles, keyGen, storageVars, obsVars, hashVars,
               lastRun >>

CallUpdateDkimSelectorMap(domain, selector, active) ==
  /\ apiCalls < MaxApiCalls
  /\ apiCalls' = apiCalls + 1
  /\ selectorMap' = updateDkimSelectorMap(selectorMap, domain, selector, active)
  /\ reply' = [op |-> "updateDkimSelectorMap", args |-> << domain, selector, active >>,
               latest |-> [d \in DomainNames |->
                             IF d = domain THEN Some(<< selector, active >>)
                             ELSE LatestMapCall(d)]]
  /\ MapUnchanged

CallEnsureDkimSelectorMap ==
  /\ selectorMap = Null
  /\ maildir = [e \in ApiEmails |-> Null]
  /\ mailboxStatsCmd = ""
  /\ mailboxPurgeCmd = ""
  /\ selectorMap' = ensureDkimSelectorMap(selectorMap)
  /\ UNCHANGED apiVars
  /\ MapUnchanged

\* ------------------------------------------------------------ specifications
NoHash == << Null, Null >>
NoReply == [op |-> "none"]

InitWorker ==
  /\ timer = FALSE
  /\ intervals = 0
  /\ running = FALSE
  /\ wpc = "idle"
  /\ queue = << >>
  /\ loc = NoLoc

InitIdle ==
  /\ now = 0
  /\ log = << >>
  /\ InitWorker
  /\ rate_limit_events = << >>
  /\ setActiveCalls = [e \in Emails |-> 0]
  /\ hashArgs = NoHash
  /\ hashRes = NoHash
  /\ lastRun = "none"
  /\ reply = NoReply
  /\ apiCalls = 0

\* The panel after bootstrap (initDatabase, discover) on an empty database.
InitEmpty ==
  /\ InitIdle
  /\ mailbox_state = [e \in Emails |-> NoRow]
  /\ mail_users = [e \in Emails |-> [present |-> FALSE]]
  /\ mail_domains = [d \in Domains |-> NoDomain]
  /\ managed_domains = [d \in Domains |-> NoDomain]
  /\ audit_logs = << >>
  /\ keyFiles = [d \in Domains |-> Null]
  /\ keyGen = 0
  /\ selectorMap = Some(<< >>)
  /\ maildir = [e \in ApiEmails |-> Null]
  /\ mailboxStatsCmd = ""
  /\ mailboxPurgeCmd = ""

WorkerSteps ==
  \/ InsertEvent
  \/ CountEvents
  \/ WarnState
  \/ WarnStamp
  \/ WarnAudit
  \/ SelectState
  \/ \E dbFails \in BOOLEAN : SetActive(dbFails)
  \/ DisableState
  \/ DisableStamp
  \/ DisableAudit

\* The panel with the domain example.com and the mailbox ops@example.com
\* provisioned: the state PostDomains and PostMailboxes lead to from InitEmpty.
DefaultDescription == "Managed by internal panel"
DefaultQuotaMb == 3072

Init ==
  /\ InitIdle
  /\ mailbox_state = [e \in Emails |-> StateOnCreate(NoRow)]
  /\ mail_users = [e \in Emails |->
       [present |-> TRUE, domain_name |-> DomainOf(e), local_part |-> LocalPartOf(e),
        display_name |-> "Ops", password_hash |-> PasswordHash("s3cretpw"),
        quota_mb |-> DefaultQuotaMb, active |-> TRUE, disabled_at |-> Null]]
  /\ mail_domains = [d \in Domains |->
       [present |-> TRUE, description |-> DefaultDescription, active |-> TRUE,
        dkim_selector |-> dkimSelector, dkim_public_key |-> DkimTxt(1),
        dkim_private_key_path |-> KeyPath(d, dkimSelector), deleted_at |-> Null]]
  /\ managed_domains = [d \in Domains |->
       [present |-> TRUE, description |-> DefaultDescription, status |-> "active",
        deleted_at |-> Null]]
  /\ audit_logs = << AuditRow(Admin, "domain_add", "domain", ExampleDomain, "success",
                              [description |-> DefaultDescription]),
                     AuditRow(Admin, "mailbox_create", "mailbox", OpsEmail, "success",
                              [quotaMb |-> DefaultQuotaMb, name |-> "Ops"]) >>
  /\ keyFiles = [d \in Domains |-> Some(1)]
  /\ keyGen = 1
  /\ selectorMap = Some(<< << ExampleDomain, dkimSelector >> >>)
  /\ maildir = [e \in ApiEmails |-> Null]
  /\ mailboxStatsCmd = ""
  /\ mailboxPurgeCmd = ""

Qids == {"4F2A", "9C1B"}

Environment ==
  \/ \E d \in TickSteps : Tick(d)
  \/ \E e \in Emails, q \in Qids, stamped \in BOOLEAN :
       AppendLine(e, Null, Some(q), Null, stamped, "file")

Administrator ==
  \/ PostMailboxes("ops", ExampleDomain, "Ops", "s3cretpw", DefaultQuotaMb)
  \/ \E e \in Emails : PostMailboxDelete(e)
  \/ \E e \in Emails : PostMailboxEnable(e)
  \/ \E e \in Emails : PostMailboxDisable(e)

\* The worker run on demand, the administrator's mailbox requests, and
\* database statements that may fail.
Next ==
  \/ Environment
  \/ CheckNow
  \/ WorkerSteps
  \/ QueryFails
  \/ Administrator

Spec == Init /\ [][Next]_vars

\* The same with a database that answers every statement.
WorkerStepsNoFault ==
  \/ InsertEvent
  \/ CountEvents
  \/ WarnState
  \/ WarnStamp
  \/ WarnAudit
  \/ SelectState
  \/ SetActive(FALSE)
  \/ DisableState
  \/ DisableStamp
  \/ DisableAudit

NextNoFault ==
  \/ Environment
  \/ CheckNow
  \/ WorkerStepsNoFault
  \/ Administrator

SpecNoFault == Init /\ [][NextNoFault]_vars

\* buildEventHash applied to pairs of parsed events.
HashTimes == {0, 30, 59, 60, 61, 119, 120}
HashEvents ==
  [userEmail : Emails, bucketName : {DefaultBucket, "smtp_out"}, action : {"ratelimited"},
   qid : {Null} \cup {Some(q) : q \in Qids}, messageId : {Null, Some("m1@example.com")},
   eventTime : HashTimes, source : {"rspamd_log"}, rawEvent : 1..MaxLines]

HashPair ==
  /\ hashArgs = NoHash
  /\ \E a \in HashEvents, b \in HashEvents : hashArgs' = << Some(a), Some(b) >>
  /\ UNCHANGED << now, log, workerVars, dbVars, fsVars, obsVars, hashRes, lastRun, apiVars >>

HashBoth ==
  /\ hashArgs # NoHash
  /\ hashRes = NoHash
  /\ hashRes' = << Some(buildEventHash(hashArgs[1][1])), Some(buildEventHash(hashArgs[2][1])) >>
  /\ UNCHANGED << now, log, workerVars, dbVars, fsVars, obsVars, hashArgs, lastRun, apiVars >>

NextHash ==
  \/ HashPair
  \/ HashBoth

SpecHash == InitEmpty /\ [][NextHash]_vars

\* Ingestion from both sources: lines with parsable time stamps, written to the
\* log file or to the journal, with or without a message id.
MessageIds == {Null, Some("m1@example.com")}
Sources == {"file", "journal"}

EnvironmentIngest ==
  \/ \E d \in TickSteps : Tick(d)
  \/ \E e \in Emails, q \in Qids, m \in MessageIds, src \in Sources :
       AppendLine(e, Null, Some(q), m, TRUE, src)

NextIngest ==
  \/ EnvironmentIngest
  \/ CheckNow
  \/ WorkerStepsNoFault

SpecIngest == Init /\ [][NextIngest]_vars

\* From the empty panel: the administrator adds the domain and the mailbox,
\* rspamd writes stamped lines, the worker runs.
EnvironmentE2E ==
  \/ \E d \in TickSteps : Tick(d)
  \/ \E e \in Emails, q \in Qids : AppendLine(e, Null, Some(q), Null, TRUE, "file")

AdministratorE2E ==
  \/ \E d \in Domains, reloadFails \in BOOLEAN :
       PostDomains(d, DefaultDescription, FALSE, reloadFails)
  \/ \E e \in Emails :
       PostMailboxes(LocalPartOf(e), DomainOf(e), "Ops", "s3cretpw", DefaultQuotaMb)

NextE2E ==
  \/ EnvironmentE2E
  \/ AdministratorE2E
  \/ CheckNow
  \/ WorkerStepsNoFault

SpecE2E == InitEmpty /\ [][NextE2E]_vars

\* The worker as server.js runs it: started at bootstrap, run by its timer and
\* on demand, stopped at shutdown, over a database that may refuse a statement.
Scheduler ==
  \/ Start
  \/ Stop
  \/ TimerFires
  \/ CheckNow

NextSchedule ==
  \/ Environment
  \/ Scheduler
  \/ WorkerSteps
  \/ QueryFails

SpecSchedule == Init /\ [][NextSchedule]_vars

\* The same without the check-now request: every run is begun by start() or
\* by the timer.
NextTimer ==
  \/ Environment
  \/ Start
  \/ Stop
  \/ TimerFires
  \/ WorkerSteps
  \/ QueryFails

SpecTimer == Init /\ [][NextTimer]_vars

\* The worker against a mail backend provisioned through the Control API: two
\* domains, the mailboxes ops@ of both and dev@example.com, the latter
\* disabled by setMailboxActive; dev@example.org has no mailbox. Rate-limit
\* lines name any of the four addresses.
ProvisionedMailbox(e, active) ==
  [present |-> TRUE, domain_name |-> DomainOf(e), local_part |-> LocalPartOf(e),
   display_name |-> "Ops", password_hash |-> PasswordHash("s3cretpw"),
   quota_mb |-> DefaultQuotaMb, active |-> active,
   disabled_at |-> IF active THEN Null ELSE Some(0)]

ProvisionedDomain(d, key) ==
  [present |-> TRUE, description |-> DefaultDescription, active |-> TRUE,
   dkim_selector |-> dkimSelector, dkim_public_key |-> DkimTxt(key),
   dkim_private_key_path |-> KeyPath(d, dkimSelector), deleted_at |-> Null]

InitBackend ==
  /\ now = 0
  /\ log = << >>
  /\ InitWorker
  /\ rate_limit_events = << >>
  /\ setActiveCalls = [e \in ApiEmails |-> 0]
  /\ hashArgs = NoHash
  /\ hashRes = NoHash
  /\ lastRun = "none"
  /\ reply = NoReply
  /\ apiCalls = 0
  /\ mailbox_state = [e \in ApiEmails |-> NoRow]
  /\ mail_users = [e \in ApiEmails |->
       IF e = OtherDevEmail THEN [present |-> FALSE]
       ELSE ProvisionedMailbox(e, e # DevEmail)]
  /\ mail_domains = [d \in ApiDomains |->
       ProvisionedDomain(d, IF d = ExampleDomain THEN 1 ELSE 2)]
  /\ managed_domains = [d \in ApiDomains |-> NoDomain]
  /\ audit_logs = << >>
  /\ keyFiles = [d \in ApiDomains |-> Some(IF d = ExampleDomain THEN 1 ELSE 2)]
  /\ keyGen = 2
  /\ selectorMap = Some(<< << ExampleDomain, dkimSelector >>, << OtherDomain, dkimSelector >> >>)
  /\ maildir = [e \in ApiEmails |-> Null]
  /\ mailboxStatsCmd = ""
  /\ mailboxPurgeCmd = ""

EnvironmentBackend ==
  \/ \E d \in TickSteps : Tick(d)
  \/ \E e \in ApiEmails, q \in Qids : AppendLine(e, Null, Some(q), Null, TRUE, "file")

NextBackend ==
  \/ EnvironmentBackend
  \/ CheckNow
  \/ WorkerSteps
  \/ QueryFails

SpecBackend == InitBackend /\ [][NextBackend]_vars

\* The Control API on its own: calls of its methods, with well-formed and
\* malformed arguments, from the empty database with two domain names in play.
InitApi ==
  /\ InitIdle
  /\ mailbox_state = [e \in ApiEmails |-> NoRow]
  /\ mail_users = [e \in ApiEmails |-> [present |-> FALSE]]
  /\ mail_domains = [d \in ApiDomains |-> NoDomain]
  /\ managed_domains = [d \in ApiDomains |-> NoDomain]
  /\ audit_logs = << >>
  /\ keyFiles = [d \in ApiDomains |-> Null]
  /\ keyGen = 0
  /\ selectorMap = Some(<< >>)
  /\ maildir = [e \in ApiEmails |-> Null]
  /\ mailboxStatsCmd = ""
  /\ mailboxPurgeCmd = ""

DomainInputs == ApiDomains \cup {BadDomain}
EmailInputs == ApiEmails \cup {BadEmail}
LocalPartInputs == {"ops", "dev", ""}
PasswordInputs == {"s3cretpw", "short"}
NewPasswordInputs == {"n3wsecret", "short"}
QuotaInputs == {0, DefaultQuotaMb}
NewQuotaInputs == {0, 2 * DefaultQuotaMb}

DomainCalls ==
  \/ \E d \in DomainInputs, fault \in DomainFaults :
       CallCreateDomain(d, DefaultDescription, fault)
  \/ \E d \in DomainInputs, reloadFails \in BOOLEAN : CallDeleteDomain(d, reloadFails)
  \/ \E d \in DomainInputs : CallGetDkim(d)

MailboxCalls ==
  \/ \E l \in LocalPartInputs, d \in DomainInputs, pw \in PasswordInputs, q \in QuotaInputs :
       CallCreateMailbox(l, d, "Ops", pw, q)
  \/ \E e \in EmailInputs : CallDeleteMailbox(e)
  \/ \E e \in EmailInputs, q \in NewQuotaInputs : CallSetMailboxQuota(e, q)
  \/ \E e \in EmailInputs, pw \in NewPasswordInputs : CallResetMailboxPassword(e, pw)
  \/ \E e \in EmailInputs, enabled \in BOOLEAN : CallSetMailboxActive(e, enabled)
  \/ \E d \in DomainInputs : CallListMailboxes(Some(d))
  \/ CallListMailboxes(Null)

NextApi == DomainCalls \/ MailboxCalls
SpecApi == InitApi /\ [][NextApi]_vars

\* The selector map on its own: calls of updateDkimSelectorMap for three domain
\* names and two selectors, starting from a missing or an empty map file.
Selectors == {dkimSelector, "s2"}

InitMap ==
  /\ InitIdle
  /\ mailbox_state = [e \in ApiEmails |-> NoRow]
  /\ mail_users = [e \in ApiEmails |-> [present |-> FALSE]]
  /\ mail_domains = [d \in ApiDomains |-> NoDomain]
  /\ managed_domains = [d \in ApiDomains |-> NoDomain]
  /\ audit_logs = << >>
  /\ keyFiles = [d \in ApiDomains |-> Null]
  /\ keyGen = 0
  /\ selectorMap \in {Null, Some(<< >>)}
  /\ maildir = [e \in ApiEmails |-> Null]
  /\ mailboxStatsCmd = ""
  /\ mailboxPurgeCmd = ""

NextMap ==
  \/ \E d \in DomainNames, sel \in Selectors, active \in BOOLEAN :
       CallUpdateDkimSelectorMap(d, sel, active)
  \/ CallEnsureDkimSelectorMap

SpecMap == InitMap /\ [][NextMap]_vars

\* -------------------------------------------------------- mailbox storage
\* The storage functions of MailServerApi (mail-platform/panel). One storage
\* base is modelled, with mailbox roots laid out as <domain>/<localPart>/Maildir
\* (the first candidate of resolveMailboxRootPath); maildir[email] is Null while
\* that directory does not exist and otherwise holds the regular files below it,
\* each with the directories leading to it, its name and its size.
StatsCmdTemplate == "mailbox-stats {{EMAIL}}"
PurgeCmdTemplate == "mailbox-purge {{MAILDIR}}"
StorageEmails == {OpsEmail}
FolderPaths == {<< "cur" >>, << ".Sent", "cur" >>, << "tmp" >>}
FileNames == {"m1"}
FileSizes == {3}

FailJson == "{\"ok\":false,\"error\":\"disk error\"}"
OkJson == "{\"ok\":true,\"usedBytes\":8,\"inboxCount\":1,\"sentCount\":1,\"deletedFiles\":2,\"deletedBytes\":8}"
OutputLines == {"  ", "done", "[]", FailJson, OkJson}
Stdouts == {<< >>} \cup {<< a >> : a \in OutputLines}
             \cup {<< a, b >> : a \in OutputLines, b \in OutputLines}
             \cup {<< "42" >>, << "null" >>}
\* what spawnSync returned: error is set when the shell could not be run or the
\* command timed out, and then there is no exit status
Runs == [error : {FALSE}, status : {Some(0)}, stdout : Stdouts]
          \cup [error : {FALSE}, status : {Some(1)}, stdout : {<< >>, << OkJson >>}]
          \cup [error : {TRUE}, status : {Null}, stdout : {<< >>}]
NoRun == [error |-> FALSE, status |-> Null, stdout |-> << >>]

Failed(msg) == [ok |-> FALSE, err |-> Some(msg), value |-> Null]
Returned(value) == [ok |-> TRUE, err |-> Null, value |-> value]

parseMailboxIdentity(emailInput) ==
  IF ~EMAIL_REGEX(emailInput) THEN Failed("Invalid email")
  ELSE Returned([email |-> emailInput, localPart |-> LocalPartOf(emailInput),
                 domain |-> DomainOf(emailInput)])

resolveMailboxRootPath(identity) == << identity.domain, identity.localPart, "Maildir" >>

runShellCommand(run, errorContext) ==
  IF run.error \/ run.status # Some(0) THEN Failed(errorContext)
  ELSE Returned(run.stdout)

\* String.prototype.trim on the output lines of the model
trim(line) ==
  CASE line = "  " -> ""
    [] line = " delete " -> "delete"
    [] OTHER -> line
\* split, trim and filter(Boolean): the non-empty lines of the output
NonEmptyLines(rawOutput) == SelectSeq(rawOutput, LAMBDA line : trim(line) # "")

\* JSON.parse on the output lines of the model: "done" is no JSON text
JsonParse(line) ==
  CASE line = "42" -> [valid |-> TRUE, type |-> "number", ok |-> Null, error |-> Null,
                       fields |-> << >>]
    [] line = "null" -> [valid |-> TRUE, type |-> "null", ok |-> Null, error |-> Null,
                         fields |-> << >>]
    [] line = "[]" -> [valid |-> TRUE, type |-> "array", ok |-> Null, error |-> Null,
                       fields |-> << >>]
    [] line = FailJson -> [valid |-> TRUE, type |-> "object", ok |-> Some(FALSE),
                           error |-> Some("disk error"), fields |-> << >>]
    [] line = OkJson -> [valid |-> TRUE, type |-> "object", ok |-> Some(TRUE), error |-> Null,
                         fields |-> [usedBytes |-> 8, inboxCount |-> 1, sentCount |-> 1,
                                     deletedFiles |-> 2, deletedBytes |-> 8]]
    [] OTHER -> [valid |-> FALSE]

\* Number.isFinite(Number(parsed.name)) ? Number(parsed.name) : null
FiniteField(parsed, name) ==
  IF name \in DOMAIN parsed.fields THEN Some(parsed.fields[name]) ELSE Null

parseMailboxStatsOutput(rawOutput, mailboxRoot) ==
  LET lines == NonEmptyLines(rawOutput)
      parsed == JsonParse(lines[Len(lines)])
  IN IF lines = << >> THEN Failed("Mailbox stats command returned no output")
     ELSE IF ~parsed.valid THEN Failed("Mailbox stats command did not return valid JSON")
     ELSE IF parsed.type \notin {"object", "array"} \/ parsed.ok = Some(FALSE)
       THEN Failed(IF parsed.error # Null THEN parsed.error[1]
                   ELSE "Mailbox stats command reported failure")
     ELSE Returned([usedBytes |-> FiniteField(parsed, "usedBytes"),
                    inboxCount |-> FiniteField(parsed, "inboxCount"),
                    sentCount |-> FiniteField(parsed, "sentCount"),
                    mailboxPath |-> mailboxRoot, source |-> "command"])

RECURSIVE SumSizes(_)
SumSizes(files) ==
  IF files = {} THEN 0
  ELSE LET f == CHOOSE f \in files : TRUE IN f.size + SumSizes(files \ {f})

toLowerCase(name) ==
  CASE name = ".Sent" -> ".sent"
    [] name = "Maildir" -> "maildir"
    [] OTHER -> name
IncludesSent(name) == name \in {".sent", "sent"}

\* path.basename(path.dirname(parentDir)) of a file below the mailbox root
FolderNameOf(mailboxRoot, f) ==
  LET parentDir == mailboxRoot \o f.dirs IN parentDir[Len(parentDir) - 1]
InInbox(f) == f.dirs \in {<< "cur" >>, << "new" >>}

\* variant: a missing directory is read like any other
collectMailboxStatsFromFilesystemNoProbe(mailboxRoot, dir, denied) ==
  IF denied \/ dir = Null THEN Failed("Permission denied reading mailbox path")
  ELSE Returned([usedBytes |-> SumSizes(dir[1]), inboxCount |-> 0, sentCount |-> 0,
                 mailboxPath |-> mailboxRoot, source |-> "filesystem"])

collectMailboxStatsFromFilesystem(mailboxRoot, dir, denied) ==
  IF dir = Null
    THEN Returned([usedBytes |-> 0, inboxCount |-> 0, sentCount |-> 0,
                   mailboxPath |-> mailboxRoot, source |-> "filesystem"])
  ELSE IF denied THEN Failed("Permission denied reading mailbox path")
  ELSE LET files == dir[1]
           others == {f \in files : ~InInbox(f)}
       IN Returned([usedBytes |-> SumSizes(files),
                    inboxCount |-> Cardinality({f \in files : InInbox(f)}),
                    sentCount |-> Cardinality({f \in others :
                       IncludesSent(toLowerCase(FolderNameOf(mailboxRoot, f)))}),
                    mailboxPath |-> mailboxRoot, source |-> "filesystem"])

\* the files of the directories named cur or new, at any depth
MessageFiles(files) ==
  {f \in files : f.dirs # << >> /\ toLowerCase(f.dirs[Len(f.dirs)]) \in {"cur", "new"}}

purgeMailboxStorageFromFilesystem(mailboxRoot, dir, denied) ==
  IF dir = Null
    THEN [ok |-> TRUE, err |-> Null, dir |-> dir,
          value |-> [deletedFiles |-> 0, deletedBytes |-> 0, mailboxPath |-> mailboxRoot,
                     source |-> "filesystem"]]
  ELSE IF denied
    THEN [ok |-> FALSE, err |-> Some("Permission denied reading mailbox path"), dir |-> dir,
          value |-> Null]
  ELSE LET deleted == MessageFiles(dir[1])
       IN [ok |-> TRUE, err |-> Null, dir |-> Some(dir[1] \ deleted),
           value |-> [deletedFiles |-> Cardinality(deleted), deletedBytes |-> SumSizes(deleted),
                      mailboxPath |-> mailboxRoot, source |-> "filesystem"]]

getMailboxStats(emailInput, run, denied) ==
  LET identity == parseMailboxIdentity(emailInput)
      mailboxRoot == resolveMailboxRootPath(identity.value)
      output == runShellCommand(run, "Failed collecting mailbox stats")
  IN IF ~identity.ok THEN identity
     ELSE IF mailboxStatsCmd # ""
       THEN (IF ~output.ok THEN output ELSE parseMailboxStatsOutput(output.value, mailboxRoot))
     ELSE collectMailboxStatsFromFilesystem(mailboxRoot, maildir[emailInput], denied)

\* the delegated branch of purgeMailboxStorage, given the command's output
parsePurgeOutput(output, mailboxRoot) ==
  LET lines == NonEmptyLines(output)
      parsed == JsonParse(lines[Len(lines)])
      unknown == Returned([deletedFiles |-> Null, deletedBytes |-> Null,
                           mailboxPath |-> mailboxRoot, source |-> "command"])
  IN IF lines = << >> THEN unknown
     ELSE IF ~parsed.valid THEN unknown
     ELSE IF parsed.ok = Some(FALSE)
       THEN Failed(IF parsed.error # Null THEN parsed.error[1]
                   ELSE "Mailbox purge command reported failure")
     ELSE IF parsed.type = "null" THEN Failed("TypeError")
     ELSE Returned([deletedFiles |-> FiniteField(parsed, "deletedFiles"),
                    deletedBytes |-> FiniteField(parsed, "deletedBytes"),
                    mailboxPath |-> mailboxRoot, source |-> "command"])

\* cmdPurges: whether the delegated command removed the message files
purgeMailboxStorage(emailInput, run, cmdPurges, denied) ==
  LET identity == parseMailboxIdentity(emailInput)
      mailboxRoot == resolveMailboxRootPath(identity.value)
      output == runShellCommand(run, "Failed purging mailbox storage")
      dir == maildir[emailInput]
      after == IF cmdPurges /\ dir # Null THEN Some(dir[1] \ MessageFiles(dir[1])) ELSE dir
      direct == purgeMailboxStorageFromFilesystem(mailboxRoot, dir, denied)
  IN IF ~identity.ok THEN [identity EXCEPT !.value = Null] @@ [dir |-> Null]
     ELSE IF mailboxPurgeCmd # ""
       THEN (IF ~output.ok THEN output ELSE parsePurgeOutput(output.value, mailboxRoot))
              @@ [dir |-> after]
     ELSE direct

DirOf(emailInput) == IF emailInput \in DOMAIN maildir THEN maildir[emailInput] ELSE Null

StorageUnchanged ==
  UNCHANGED << now, log, workerVars, dbVars, keyFiles, keyGen, selectorMap, mailboxStatsCmd,
               mailboxPurgeCmd, obsVars, hashVars, lastRun >>

CallGetMailboxStats(emailInput, run, denied) ==
  LET res == getMailboxStats(emailInput, run, denied)
  IN /\ apiCalls < MaxStorageCalls
     /\ apiCalls' = apiCalls + 1
     /\ IF mailboxStatsCmd # "" THEN ~denied /\ run # NoRun ELSE run = NoRun
     /\ reply' = [op |-> "getMailboxStats", args |-> << emailInput >>, run |-> run,
                  delegated |-> mailboxStatsCmd # "", before |-> DirOf(emailInput),
                  ok |-> res.ok, err |-> res.err, value |-> res.value]
     /\ UNCHANGED maildir
     /\ StorageUnchanged

CallPurgeMailboxStorage(emailInput, run, cmdPurges, denied) ==
  LET res == purgeMailboxStorage(emailInput, run, cmdPurges, denied)
  IN /\ apiCalls < MaxStorageCalls
     /\ apiCalls' = apiCalls + 1
     /\ IF mailboxPurgeCmd # "" THEN ~denied /\ run # NoRun ELSE run = NoRun /\ ~cmdPurges
     /\ reply' = [op |-> "purgeMailboxStorage", args |-> << emailInput >>, run |-> run,
                  delegated |-> mailboxPurgeCmd # "", before |-> DirOf(emailInput),
                  ok |-> res.ok, err |-> res.err, value |-> res.value]
     /\ maildir' = IF emailInput \in DOMAIN maildir
                   THEN [maildir EXCEPT ![emailInput] = res.dir] ELSE maildir
     /\ StorageUnchanged

\* The mail server stores a message file below a mailbox root, creating the
\* root when it is missing.
StoredFiles ==
  UNION {{<< e, f >> : f \in maildir[e][1]} : e \in {x \in DOMAIN maildir : maildir[x] # Null}}
StoreFile(email, dirs, name, size) ==
  LET files == IF maildir[email] = Null THEN {} ELSE maildir[email][1]
  IN /\ \A f \in files : ~(f.dirs = dirs /\ f.name = name)
     /\ Cardinality(StoredFiles) < MaxFiles
     /\ maildir' = [maildir EXCEPT ![email] =
                      Some(files \cup {[dirs |-> dirs, name |-> name, size |-> size]})]
     /\ UNCHANGED apiVars
     /\ StorageUnchanged

\* String.prototype.toUpperCase on the confirmation texts of the model
toUpperCase(text) ==
  CASE text = "delete" -> "DELETE"
    [] text = "yes" -> "YES"
    [] OTHER -> text
STORAGE_PURGE_CONFIRMATION == "DELETE"

\* variant: any text confirms
PurgeConfirmedNonEmpty(confirmText) == trim(confirmText) # ""

PurgeConfirmed(confirmText) == toUpperCase(trim(confirmText)) = STORAGE_PURGE_CONFIRMATION

\* POST /mailboxes/:email/purge-storage; reply records the request and whether
\* it reached purgeMailboxStorage
PostMailboxPurgeStorage(email, confirmText, run, cmdPurges, denied) ==
  LET accepted == EMAIL_REGEX(email) /\ PurgeConfirmed(confirmText)
      res == purgeMailboxStorage(email, run, cmdPurges, denied)
  IN /\ apiCalls < MaxStorageCalls
     /\ apiCalls' = apiCalls + 1
     /\ IF accepted /\ mailboxPurgeCmd # ""
        THEN ~denied /\ run # NoRun
        ELSE run = NoRun /\ ~cmdPurges /\ (~accepted => ~denied)
     /\ reply' = [op |-> "POST /mailboxes/:email/purge-storage",
                  args |-> << email, confirmText >>, called |-> accepted,
                  before |-> DirOf(email),
                  ok |-> accepted /\ res.ok,
                  err |-> IF ~EMAIL_REGEX(email) THEN Some("Invalid mailbox")
                          ELSE IF ~accepted THEN Some("Storage purge canceled")
                          ELSE res.err,
                  value |-> IF accepted THEN res.value ELSE Null]
     /\ IF accepted
        THEN /\ maildir' = [maildir EXCEPT ![email] = res.dir]
             /\ auditLog(Admin, "mailbox_storage_purge", "mailbox", email,
                         IF res.ok THEN "success" ELSE "error",
                         IF res.ok THEN res.value ELSE [error |-> res.err])
        ELSE UNCHANGED << maildir, audit_logs >>
     /\ UNCHANGED << now, log, workerVars, rate_limit_events, mailbox_state, mail_users,
                     mail_domains, managed_domains, keyFiles, keyGen, selectorMap,
                     mailboxStatsCmd, mailboxPurgeCmd, obsVars, hashVars, lastRun >>

ConfirmInputs == {"DELETE", " delete ", "yes", "DELETED", ""}

InitStorage ==
  /\ InitIdle
  /\ mailbox_state = [e \in ApiEmails |-> NoRow]
  /\ mail_users = [e \in ApiEmails |-> [present |-> FALSE]]
  /\ mail_domains = [d \in ApiDomains |-> NoDomain]
  /\ managed_domains = [d \in ApiDomains |-> NoDomain]
  /\ audit_logs = << >>
  /\ keyFiles = [d \in ApiDomains |-> Null]
  /\ keyGen = 0
  /\ selectorMap = Some(<< >>)
  /\ maildir = [e \in ApiEmails |-> Null]
  /\ mailboxStatsCmd \in {"", StatsCmdTemplate}
  /\ mailboxPurgeCmd \in {"", PurgeCmdTemplate}

StorageInputs == StorageEmails \cup {BadEmail}

NextStorage ==
  \/ \E e \in StorageEmails, dirs \in FolderPaths, name \in FileNames, size \in FileSizes :
       StoreFile(e, dirs, name, size)
  \/ \E e \in StorageInputs, run \in Runs \cup {NoRun}, denied \in BOOLEAN :
       CallGetMailboxStats(e, run, denied)
  \/ \E e \in StorageInputs, run \in Runs \cup {NoRun}, cmdPurges \in BOOLEAN,
        denied \in BOOLEAN :
       CallPurgeMailboxStorage(e, run, cmdPurges, denied)

SpecStorage == InitStorage /\ [][NextStorage]_vars

\* The purge requests of the administrator on mailboxes that receive mail.
NextPurgeRoute ==
  \/ \E e \in StorageEmails, dirs \in FolderPaths, name \in FileNames, size \in FileSizes :
       StoreFile(e, dirs, name, size)
  \/ \E e \in StorageInputs, text \in ConfirmInputs, run \in Runs \cup {NoRun},
        cmdPurges \in BOOLEAN, denied \in BOOLEAN :
       PostMailboxPurgeStorage(e, text, run, cmdPurges, denied)

SpecPurgeRoute == InitStorage /\ [][NextPurgeRoute]_vars

\* ------------------------------------------------ enforcement against requests
\* The panel after a first rate-limit hit of the mailbox: the event of the first
\* line is recorded and stamped, the mailbox is in warning, and the log holds a
\* second line of the same minute that no run has read yet.
InitRace ==
  /\ now = 0
  /\ log = << LogLine(OpsEmail, Null, Some("4F2A"), Null, Some(0), "file"),
              LogLine(OpsEmail, Null, Some("9C1B"), Null, Some(0), "file") >>
  /\ InitWorker
  /\ LET event == parseRatelimitLine(1)
         h == buildEventHash(event)
     IN rate_limit_events = StampWarned(InsertEventRow(<< >>, event, h), h)
  /\ setActiveCalls = [e \in Emails |-> 0]
  /\ hashArgs = NoHash
  /\ hashRes = NoHash
  /\ lastRun = "started"
  /\ reply = NoReply
  /\ apiCalls = 0
  /\ mailbox_state = [e \in Emails |-> UpsertWarning(StateOnCreate(NoRow))]
  /\ mail_users = [e \in Emails |->
       [present |-> TRUE, domain_name |-> DomainOf(e), local_part |-> LocalPartOf(e),
        display_name |-> "Ops", password_hash |-> PasswordHash("s3cretpw"),
        quota_mb |-> DefaultQuotaMb, active |-> TRUE, disabled_at |-> Null]]
  /\ mail_domains = [d \in Domains |->
       [present |-> TRUE, description |-> DefaultDescription, active |-> TRUE,
        dkim_selector |-> dkimSelector, dkim_public_key |-> DkimTxt(1),
        dkim_private_key_path |-> KeyPath(d, dkimSelector), deleted_at |-> Null]]
  /\ managed_domains = [d \in Domains |->
       [present |-> TRUE, description |-> DefaultDescription, status |-> "active",
        deleted_at |-> Null]]
  /\ audit_logs = << AuditRow(Admin, "domain_add", "domain", ExampleDomain, "success",
                              [description |-> DefaultDescription]),
                     AuditRow(Admin, "mailbox_create", "mailbox", OpsEmail, "success",
                              [quotaMb |-> DefaultQuotaMb, name |-> "Ops"]),
                     AuditRow("system-worker", "mailbox_warned", "mailbox", OpsEmail,
                              "warning", [reason |-> "ratelimit_first_hit",
                                          bucket |-> DefaultBucket]) >>
  /\ keyFiles = [d \in Domains |-> Some(1)]
  /\ keyGen = 1
  /\ selectorMap = Some(<< << ExampleDomain, dkimSelector >> >>)
  /\ maildir = [e \in ApiEmails |-> Null]
  /\ mailboxStatsCmd = ""
  /\ mailboxPurgeCmd = ""

\* One enforcement of the second hit, with a database that answers every
\* statement, against the administrator's enable and disable requests.
NextRace ==
  \/ Tick(MinuteSecs)
  \/ CheckNow
  \/ InsertEvent
  \/ CountEvents
  \/ SelectState
  \/ SetActive(FALSE)
  \/ DisableState
  \/ DisableStamp
  \/ DisableAudit
  \/ \E e \in Emails : PostMailboxEnable(e)
  \/ \E e \in Emails : PostMailboxDisable(e)

SpecRace == InitRace /\ [][NextRace]_vars

\* ---------------------------------------------------------------- the claims
RowsOf(email) == {i \in DOMAIN rate_limit_events : rate_limit_events[i].user_email = email}
RowsOfLine(i) == {r \in DOMAIN rate_limit_events : rate_limit_events[r].raw_event = i}
InWindowRowsOf(email) == {i \in RowsOf(email) : InWindow(rate_limit_events[i].event_time)}
Processing(email) == queue # << >> /\ Head(queue).userEmail = email
NoRowOrActive(row) == ~row.present \/ row.status = "active"
\* a step of the worker (the routes leave its position and its queue alone)
WorkerStep == wpc' # wpc \/ queue' # queue
\* the statement of the step in flight was refused and the run ended
Aborted == wpc' = "idle" /\ ~running' /\ queue' = << >>
LastAudit == audit_logs[Len(audit_logs)]

\* C1: for a mailbox whose only rate-limit event is the one just inserted (no
\* prior events) and whose MailboxState row is missing or active, an event time
\* inside the rolling window sends processEvent to the warning branch, the
\* warning upsert leaves status = warning with warnCount = 1, and no step of
\* that branch calls setActive(email, false).
C1_FirstEventWarns ==
  [][\A e \in Emails :
       (Processing(e) /\ Cardinality(RowsOf(e)) = 1 /\ NoRowOrActive(mailbox_state[e]))
       => /\ (wpc = "count" /\ InWindowRowsOf(e) # {} /\ WorkerStep)
               => (wpc' = "warn_state" \/ Aborted)
          /\ (wpc = "warn_state" /\ wpc' = "warn_stamp")
               => /\ mailbox_state'[e].present
                  /\ mailbox_state'[e].status = "warning"
                  /\ mailbox_state'[e].warn_count = 1
          /\ (wpc \in {"count", "warn_state", "warn_stamp", "warn_audit"})
               => /\ setActiveCalls' = setActiveCalls
                  /\ wpc' \notin {"sel_state", "set_active"}
                  /\ (WorkerStep => mail_users' = mail_users)]_vars

C1_Witness ==
  /\ wpc = "warn_stamp"
  /\ Cardinality(RowsOf(OpsEmail)) = 1
  /\ mailbox_state[OpsEmail].present
  /\ mailbox_state[OpsEmail].status = "warning"
  /\ mailbox_state[OpsEmail].warn_count = 1
  /\ setActiveCalls[OpsEmail] = 0

\* C2 (as claimed): once the second event in the window is ingested the status
\* is disabled and, as long as nobody re-enables the mailbox by hand (here: as
\* long as the administrator has made no mailbox request at all), the worker
\* calls setActive(email, false) once in total, however many events follow.
NoManualRequest ==
  \A i \in DOMAIN audit_logs :
    audit_logs[i].actor = Admin => i <= 2
C2_DisableCalledOnce ==
  \A e \in Emails : NoManualRequest => setActiveCalls[e] <= 1

\* C3 (as claimed): however often and whenever the worker runs over the same
\* log lines, each line leaves at most one RateLimitEvent row.
C3_OneRowPerLine ==
  \A i \in DOMAIN log : Cardinality(RowsOfLine(i)) <= 1

\* C7 (as claimed): no step of the worker takes a MailboxState row out of
\* status disabled.
C7_DisabledTerminalForWorker ==
  [][WorkerStep =>
       \A e \in Emails :
         AlreadyDisabled(mailbox_state[e]) => AlreadyDisabled(mailbox_state'[e])]_vars

\* C8 (as claimed): every step of the worker that moves a MailboxState row to
\* status disabled finds it in status warning.
C8_DisabledOnlyFromWarning ==
  [][WorkerStep =>
       \A e \in Emails :
         (~AlreadyDisabled(mailbox_state[e]) /\ AlreadyDisabled(mailbox_state'[e]))
         => (mailbox_state[e].present /\ mailbox_state[e].status = "warning")]_vars

\* C9: every MailboxState row with status disabled has disabledAt set.
C9_DisabledHasDisabledAt ==
  \A e \in Emails :
    AlreadyDisabled(mailbox_state[e]) => mailbox_state[e].disabled_at # Null

C9_Witness ==
  /\ AlreadyDisabled(mailbox_state[OpsEmail])
  /\ setActiveCalls[OpsEmail] = 1
  /\ wpc = "dis_stamp"

\* C10: a manual enable that succeeds leaves Mailbox.active = true with
\* disabledAt cleared and MailboxState = (active, warnCount 0, disabledAt NULL)
\* whatever the row was; one whose setActive(email, true) throws leaves
\* MailboxState and the Mailbox rows as they were.
EnableAnswered(e, status) ==
  /\ Len(audit_logs') = Len(audit_logs) + 1
  /\ audit_logs'[Len(audit_logs')].action = "mailbox_enable"
  /\ audit_logs'[Len(audit_logs')].target_id = e
  /\ audit_logs'[Len(audit_logs')].status = status

SameIdentity(a, b) ==
  /\ a.userEmail = b.userEmail
  /\ a.bucketName = b.bucketName
  /\ a.action = b.action
  /\ a.messageId = b.messageId
  /\ a.qid = b.qid
Apart(a, b) == IF a.eventTime >= b.eventTime THEN a.eventTime - b.eventTime
               ELSE b.eventTime - a.eventTime
SameMinute(a, b) == a.eventTime \div MinuteSecs = b.eventTime \div MinuteSecs

C4_CloseTimesSameHash ==
  hashRes # NoHash =>
    LET a == hashArgs[1][1]
        b == hashArgs[2][1]
    IN SameIdentity(a, b) =>
         /\ Apart(a, b) < MinuteSecs => hashRes[1] = hashRes[2]
         /\ ~SameMinute(a, b) => hashRes[1] # hashRes[2]

\* C4 (amended): two parsed events with the same email, bucket, action and
\* message/queue id get the same eventHash exactly when their times fall in
\* the same minute, floor(eventTime / 60 s); two times less than 60 seconds
\* apart on different sides of a minute boundary get different hashes.
C4_HashByMinute ==
  hashRes # NoHash =>
    LET a == hashArgs[1][1]
        b == hashArgs[2][1]
    IN SameIdentity(a, b) =>
         /\ SameMinute(a, b) => hashRes[1] = hashRes[2]
         /\ ~SameMinute(a, b) => hashRes[1] # hashRes[2]

C4_Witness ==
  /\ hashRes # NoHash
  /\ SameIdentity(hashArgs[1][1], hashArgs[2][1])
  /\ hashArgs[1][1].eventTime = 59
  /\ hashArgs[2][1].eventTime = 60
  /\ hashRes[1] # hashRes[2]

\* C5: the event table never holds two rows that agree on (email, bucket,
\* floor(eventTime / 60 s), messageId else queueId else "none", action),
\* whatever their source, raw line or unused id; and the enforcement part of
\* processEvent is entered only by the step that inserts a row whose five
\* values no earlier row has: one row and one trigger per such event.
RowKey(row) ==
  << row.user_email, row.bucket_name, row.event_time \div MinuteSecs,
     IF row.message_id # Null THEN row.message_id[1]
     ELSE IF row.qid # Null THEN row.qid[1] ELSE "none",
     row.action >>
EventKey(event) ==
  << event.userEmail, event.bucketName, event.eventTime \div MinuteSecs,
     IF event.messageId # Null THEN event.messageId[1]
     ELSE IF event.qid # Null THEN event.qid[1] ELSE "none",
     event.action >>

C5_OneRowOneTrigger ==
  [][/\ \A i, j \in DOMAIN rate_limit_events' :
          RowKey(rate_limit_events'[i]) = RowKey(rate_limit_events'[j]) => i = j
     /\ (wpc' = "count" /\ WorkerStep)
          => /\ wpc = "insert"
             /\ Len(rate_limit_events') = Len(rate_limit_events) + 1
             /\ \A i \in DOMAIN rate_limit_events :
                  RowKey(rate_limit_events[i]) # EventKey(Head(queue))
     /\ (wpc' \in {"warn_state", "sel_state"} /\ WorkerStep) => wpc = "count"
     /\ (wpc = "insert" /\ WorkerStep
           /\ \E i \in DOMAIN rate_limit_events :
                RowKey(rate_limit_events[i]) = EventKey(Head(queue)))
          => /\ rate_limit_events' = rate_limit_events
             /\ wpc' \in {"insert", "idle"}
             /\ UNCHANGED << mailbox_state, mail_users, audit_logs, setActiveCalls >>]_vars

\* the journal line 1 and the file line 2 agree on the five values and differ
\* in source, raw line and queue id; a run that read both has finished
C5_Witness ==
  /\ Len(log) = 2
  /\ log[1].src = "journal" /\ log[2].src = "file"
  /\ log[1].mid # Null /\ log[1].mid = log[2].mid
  /\ log[1].qid # log[2].qid
  /\ log[1].tok = log[2].tok
  /\ wpc = "idle" /\ ~running
  /\ Len(rate_limit_events) = 1
  /\ rate_limit_events[1].raw_event = 2
  /\ now - log[1].at[1] <= JournalSinceSecs
  /\ mailbox_state[OpsEmail].status = "warning"
  /\ mailbox_state[OpsEmail].warn_count = 1
  /\ Len(audit_logs) = 3

\* C6: once the domain example.com and then the mailbox ops@example.com
\* (quota 3072) have been created, and two lines for ops@example.com stamped
\* one minute apart with different queue ids have been ingested while inside
\* the rolling window, with no other mailbox request from the administrator
\* (a second POST /mailboxes re-activates the mailbox), MailboxState is disabled with warnCount = 1, the mailbox
\* has exactly two RateLimitEvent rows, and Mailbox.active is false.
E2EScenario ==
  /\ Len(audit_logs) >= 2
  /\ audit_logs[1].action = "domain_add" /\ audit_logs[1].target_id = ExampleDomain
  /\ audit_logs[1].status = "success"
  /\ audit_logs[2].action = "mailbox_create" /\ audit_logs[2].target_id = OpsEmail
  /\ audit_logs[2].status = "success"
  /\ audit_logs[2].details.quotaMb = DefaultQuotaMb
  /\ AdminOps("mailbox") = 1
  /\ Len(log) = 2
  /\ \A i \in 1..2 : log[i].email = OpsEmail /\ log[i].tok # Null
  /\ log[2].tok[1] = log[1].tok[1] + MinuteSecs
  /\ log[1].qid # log[2].qid
  /\ InWindow(log[1].tok[1])
  /\ \A i \in 1..2 : RowsOfLine(i) # {}
  /\ wpc = "idle" /\ ~running

C6_EndToEnd ==
  E2EScenario =>
    /\ mailbox_state[OpsEmail].present
    /\ mailbox_state[OpsEmail].status = "disabled"
    /\ mailbox_state[OpsEmail].warn_count = 1
    /\ Cardinality(RowsOf(OpsEmail)) = 2
    /\ mail_users[OpsEmail].present
    /\ ~mail_users[OpsEmail].active

C6_Witness ==
  /\ E2EScenario
  /\ mailbox_state[OpsEmail].status = "disabled"
  /\ mailbox_state[OpsEmail].warn_count = 1
  /\ Cardinality(RowsOf(OpsEmail)) = 2
  /\ ~mail_users[OpsEmail].active
  /\ setActiveCalls[OpsEmail] = 1

\* C11 (as claimed): a MailboxState row is inserted, updated or deleted only by
\* a step of the worker or by a manual enable that succeeds; mailbox create,
\* mailbox delete and manual disable leave every row as it was.
C11_OnlyWorkerAndEnableWrite ==
  [][\A e \in Emails :
       mailbox_state'[e] # mailbox_state[e]
       => (WorkerStep \/ EnableAnswered(e, "success"))]_vars

\* C12: events are processed only while the in-flight flag is set, and a run
\* starts only while it is clear; a runOnce invocation (timer, start-up or
\* check-now) that finds the flag set answers "skipped" and changes nothing:
\* no row, no state, the run in flight keeps its queue and its position (it is
\* not cancelled), and when that run ends nothing is left waiting to run.
RunReplaced == queue' # << >> /\ queue' # queue /\ (queue = << >> \/ queue' # Tail(queue))

C12_OneRunAtATime ==
  [][/\ (wpc # "idle" => running) /\ (wpc' # "idle" => running')
     /\ RunReplaced => (~running /\ wpc = "idle" /\ lastRun' = "started")
     /\ (lastRun' = "skipped" /\ lastRun # "skipped")
          => /\ running /\ running'
             /\ UNCHANGED << now, log, running, wpc, queue, loc, dbVars, fsVars,
                             obsVars >>
     /\ (running /\ ~running') => (queue' = << >> /\ wpc' = "idle")]_vars

C12_Witness ==
  /\ lastRun = "skipped"
  /\ timer
  /\ running
  /\ wpc = "count"
  /\ Len(queue) = 2
  /\ Len(rate_limit_events) = 1

\* C14 (as claimed): the in-flight flag is set only while an event is being
\* processed, so a run that failed does not make the next one skip; and no
\* log line is enforced twice: whatever runs failed, over all runs at most one
\* of the rows recorded for a line carries a warning or a disable stamp.
Enforced(i) ==
  {r \in RowsOfLine(i) :
     rate_limit_events[r].warned_at # Null \/ rate_limit_events[r].disabled_at # Null}

C14_FailedRunRetriesOnce ==
  /\ running <=> wpc # "idle"
  /\ \A i \in DOMAIN log : Cardinality(Enforced(i)) <= 1

\* C13: for a newly inserted event with two or more events in the window and
\* a MailboxState row that is not disabled, the worker calls
\* setActive(email, false) and, whether the call returns or throws, goes on to
\* set MailboxState to disabled with disabledAt = now, to stamp the event's
\* disabledAt, and to append exactly one "mailbox_disabled" audit record:
\* status success with no error text when the call returned (the Mailbox is
\* then inactive), status error with the error text when it threw.
C13_DisableWhateverTheCall ==
  [][WorkerStep =>
       LET e == Head(queue).userEmail
       IN /\ (wpc = "count" /\ WindowCount(rate_limit_events, e) >= 2)
               => (wpc' = "sel_state" \/ Aborted)
          /\ (wpc = "sel_state" /\ ~AlreadyDisabled(mailbox_state[e]))
               => (wpc' = "set_active" \/ Aborted)
          /\ wpc = "set_active"
               => /\ wpc' = "dis_state"
                  /\ setActiveCalls'[e] = setActiveCalls[e] + 1
                  /\ loc'.disableStatus \in {Some("success"), Some("error")}
                  /\ loc'.disableStatus = Some("success")
                       => (loc'.disableError = Null /\ ~mail_users'[e].active)
                  /\ loc'.disableStatus = Some("error")
                       => (loc'.disableError # Null /\ mail_users' = mail_users)
          /\ (wpc = "dis_state" /\ ~Aborted)
               => /\ wpc' = "dis_stamp"
                  /\ mailbox_state'[e].status = "disabled"
                  /\ mailbox_state'[e].disabled_at = Some(now)
          /\ (wpc = "dis_stamp" /\ ~Aborted)
               => /\ wpc' = "dis_audit"
                  /\ \E r \in DOMAIN rate_limit_events' :
                       /\ rate_limit_events'[r].event_hash = loc.eventHash[1]
                       /\ rate_limit_events'[r].disabled_at = Some(now)
          /\ (wpc = "dis_audit" /\ audit_logs' # audit_logs)
               => /\ audit_logs' = Append(audit_logs, audit_logs'[Len(audit_logs')])
                  /\ audit_logs'[Len(audit_logs')].action = "mailbox_disabled"
                  /\ audit_logs'[Len(audit_logs')].target_id = e
                  /\ audit_logs'[Len(audit_logs')].status = loc.disableStatus[1]
                  /\ audit_logs'[Len(audit_logs')].details.error = loc.disableError
          /\ (wpc # "dis_audit" /\ wpc' # wpc)
               => \A i \in DOMAIN audit_logs' :
                    audit_logs'[i].action = "mailbox_disabled" => i \in DOMAIN audit_logs]_vars

\* the call threw, and the mailbox was disabled in MailboxState all the same
C13_Witness ==
  /\ audit_logs # << >>
  /\ LastAudit.action = "mailbox_disabled"
  /\ LastAudit.status = "error"
  /\ LastAudit.details.error # Null
  /\ mailbox_state[OpsEmail].status = "disabled"
  /\ mailbox_state[OpsEmail].disabled_at # Null
  /\ \E r \in RowsOf(OpsEmail) : rate_limit_events[r].disabled_at # Null
  /\ wpc = "idle"

\* ------------------------------------------------- claims on the Control API
\* the step is a call of the method op
Called(op) == apiCalls' = apiCalls + 1 /\ reply'.op = op

ValidationErrors ==
  {Some("Invalid domain"), Some("Invalid mailbox payload"), Some("Invalid email"),
   Some("Invalid quota update payload"), Some("Invalid password reset payload"),
   Some("Invalid mailbox")}
NotFoundErrors ==
  {Some("Domain not found"), Some("Domain not found or inactive"), Some("Mailbox not found")}

UsableDomain(row) == row.present /\ row.active /\ row.deleted_at = Null

\* C15: for every valid local part, password and quota, and every well-formed
\* domain name, createMailbox fails with a not-found error and leaves table mail_users as it
\* was when the domain has no row in mail_domains, or a row with active = false,
\* or a row with deleted_at set.
C15_NoMailboxWithoutDomain ==
  [][Called("createMailbox") =>
       LET localPart == reply'.args[1]
           domain == reply'.args[2]
           password == reply'.args[4]
           quotaMb == reply'.args[5]
       IN (/\ localPart # "" /\ domain \in ApiDomains
           /\ Len(password) >= MinPasswordLen /\ quotaMb > 0
           /\ \/ ~mail_domains[domain].present
              \/ ~mail_domains[domain].active
              \/ mail_domains[domain].deleted_at # Null)
            => /\ ~reply'.ok
               /\ reply'.err \in NotFoundErrors
               /\ mail_users' = mail_users]_vars

\* createMailbox was refused for a soft-deleted domain while another domain has a mailbox
C15_Witness ==
  /\ reply.op = "createMailbox"
  /\ reply.err = Some("Domain not found or inactive")
  /\ reply.before.present /\ ~reply.before.active /\ reply.before.deleted_at # Null
  /\ reply.args[4] = "s3cretpw" /\ reply.args[5] = DefaultQuotaMb
  /\ \E e \in ApiEmails : mail_users[e].present
  /\ \A e \in ApiEmails : mail_users[e].present => mail_users[e].domain_name # reply.args[2]

\* C16: after a successful deleteDomain(d), listMailboxes filtered by d returns
\* no row, the row of d in mail_domains is inactive with deleted_at set, the
\* selector map has no line for d, and the mailboxes of every other domain are
\* as they were; deleteDomain of a well-formed domain name with no row in
\* mail_domains fails with a not-found error and changes nothing.
C16_DeleteDomainEmptiesIt ==
  [][\A d \in ApiDomains :
       (Called("deleteDomain") /\ reply'.args = << d >>) =>
          /\ reply'.ok =>
               /\ listMailboxes(Some(d))' = << >>
               /\ \A e \in ApiEmails : ~(mail_users'[e].present /\ mail_users'[e].domain_name = d)
               /\ mail_domains'[d].present
               /\ ~mail_domains'[d].active
               /\ mail_domains'[d].deleted_at # Null
               /\ \A o \in ApiDomains \ {d} : mail_domains'[o] = mail_domains[o]
               /\ \A i \in DOMAIN selectorMap'[1] : selectorMap'[1][i][1] # d
               /\ \A e \in ApiEmails :
                    (mail_users[e].present /\ mail_users[e].domain_name # d)
                      => mail_users'[e] = mail_users[e]
               /\ \A e \in ApiEmails : ~mail_users[e].present => ~mail_users'[e].present
          /\ ~mail_domains[d].present =>
               /\ ~reply'.ok
               /\ reply'.err = Some("Domain not found")
               /\ UNCHANGED << mail_users, mail_domains, fsVars >>]_vars

\* deleteDomain returned after removing a mailbox, and another domain keeps its mailbox
C16_Witness ==
  /\ reply.op = "deleteDomain"
  /\ reply.ok
  /\ reply.changed >= 1
  /\ reply.before.present /\ reply.before.active
  /\ listMailboxes(Some(reply.args[1])) = << >>
  /\ Len(listMailboxes(Null)) >= 1

\* C17: key material is created once per (domain, selector). No call rewrites
\* or removes a private-key file that exists; a createDomain for a domain whose
\* key file exists (a repeated call, or a re-add after deleteDomain) generates
\* no key pair and stores the DKIM TXT value derived from that file, the value
\* the first call stored; every row of mail_domains carries the TXT value of the
\* domain's key file.
C17_KeyMaterialOnce ==
  [][\A d \in ApiDomains :
       /\ keyFiles[d] # Null => keyFiles'[d] = keyFiles[d]
       /\ (mail_domains[d].present /\ mail_domains'[d].present)
            => mail_domains'[d].dkim_public_key = mail_domains[d].dkim_public_key
       /\ mail_domains'[d].present
            => /\ keyFiles'[d] # Null
               /\ mail_domains'[d].dkim_public_key = DkimTxt(keyFiles'[d][1])
               /\ mail_domains'[d].dkim_private_key_path = KeyPath(d, dkimSelector)
       /\ (Called("createDomain") /\ reply'.args[1] = d /\ keyFiles[d] # Null)
            => /\ keyGen' = keyGen
               /\ keyFiles' = keyFiles
               /\ mail_domains'[d] # mail_domains[d]
                    => mail_domains'[d].dkim_public_key = DkimTxt(keyFiles[d][1])]_vars

\* a soft-deleted domain was added again, and its key is still the first one generated
C17_Witness ==
  /\ reply.op = "createDomain"
  /\ reply.ok
  /\ reply.before.present /\ reply.before.deleted_at # Null
  /\ keyGen = 1
  /\ keyFiles[reply.args[1]] = Some(1)
  /\ mail_domains[reply.args[1]].active
  /\ mail_domains[reply.args[1]].dkim_public_key = reply.before.dkim_public_key

\* C18: for every well-formed domain name, getDkim of a domain whose row is not
\* soft-deleted (the state a successful createDomain leaves) returns the
\* configured selector and the TXT value "v=DKIM1; k=rsa; p=" followed by the
\* non-empty public-key body of the domain's private-key file, and changes
\* nothing; getDkim of a domain with no row or with deleted_at set fails with a
\* not-found error.
C18_GetDkimAfterCreate ==
  [][\A d \in ApiDomains :
       /\ (Called("createDomain") /\ reply'.args[1] = d /\ reply'.ok)
            => /\ mail_domains'[d].present
               /\ mail_domains'[d].deleted_at = Null
               /\ keyFiles'[d] # Null
       /\ (Called("getDkim") /\ reply'.args = << d >>)
            => /\ UNCHANGED << dbVars, fsVars >>
               /\ IF mail_domains[d].present /\ mail_domains[d].deleted_at = Null
                  THEN /\ reply'.ok
                       /\ keyFiles[d] # Null
                       /\ PubBody(keyFiles[d][1]) # ""
                       /\ reply'.value =
                            Some([domain |-> d, dkim_selector |-> dkimSelector,
                                  dkim_txt |-> "v=DKIM1; k=rsa; p=" \o PubBody(keyFiles[d][1])])
                  ELSE /\ ~reply'.ok
                       /\ reply'.err = Some("Domain not found")
                       /\ reply'.value = Null]_vars

\* getDkim returned the record of the second domain created, whose key is the second one
C18_Witness ==
  /\ reply.op = "getDkim"
  /\ reply.ok
  /\ keyFiles[reply.args[1]] = Some(2)
  /\ reply.value[1].dkim_selector = "mail"
  /\ reply.value[1].dkim_txt = "v=DKIM1; k=rsa; p=MIIB2"

\* the arguments of the call r fail a syntactic check of its method
Malformed(r) ==
  CASE r.op \in {"createDomain", "deleteDomain", "getDkim"} -> r.args[1] \notin ApiDomains
    [] r.op = "createMailbox" ->
         \/ r.args[1] = "" \/ r.args[2] \notin ApiDomains
         \/ Len(r.args[4]) < MinPasswordLen \/ r.args[5] <= 0
    [] r.op \in {"deleteMailbox", "setMailboxActive"} -> r.args[1] \notin ApiEmails
    [] r.op = "setMailboxQuota" -> r.args[1] \notin ApiEmails \/ r.args[2] <= 0
    [] r.op = "resetMailboxPassword" ->
         r.args[1] \notin ApiEmails \/ Len(r.args[2]) < MinPasswordLen
    [] OTHER -> FALSE

\* C19: validation precedes mutation. A Control API call with a malformed
\* domain or email, a password shorter than 8 or a quota <= 0 is rejected with
\* a validation error, and every call rejected with a validation error leaves
\* the tables, the key files and the selector map as they were and runs no
\* reload command.
C19_ValidationBeforeMutation ==
  [][apiCalls' = apiCalls + 1 =>
       /\ Malformed(reply') => reply'.err \in ValidationErrors
       /\ reply'.err \in ValidationErrors
            => /\ Malformed(reply')
               /\ ~reply'.ok
               /\ ~reply'.reloaded
               /\ UNCHANGED << dbVars, fsVars >>]_vars

\* a quota of 0 for an existing mailbox was rejected
C19_Witness ==
  /\ reply.op = "setMailboxQuota"
  /\ reply.err = Some("Invalid quota update payload")
  /\ reply.args[1] \in ApiEmails /\ reply.args[2] <= 0
  /\ reply.before.present
  /\ mail_users[reply.args[1]] = reply.before
  /\ ~reply.reloaded

RowMethods == {"deleteMailbox", "setMailboxQuota", "resetMailboxPassword", "setMailboxActive"}

\* what a call that returned did to the row of e
RowEffect(e) ==
  CASE reply'.op = "deleteMailbox" -> ~mail_users'[e].present
    [] reply'.op = "setMailboxQuota" ->
         mail_users'[e] = [mail_users[e] EXCEPT !.quota_mb = reply'.args[2]]
    [] reply'.op = "resetMailboxPassword" ->
         mail_users'[e] = [mail_users[e] EXCEPT !.password_hash = PasswordHash(reply'.args[2])]
    [] reply'.op = "setMailboxActive" ->
         mail_users'[e] = [mail_users[e] EXCEPT !.active = reply'.args[2],
                             !.disabled_at = IF reply'.args[2] THEN Null ELSE Some(now)]

\* C20 as stated: deleteMailbox, setMailboxQuota, resetMailboxPassword and
\* setMailboxActive on a well-formed email with no row in mail_users fail with a
\* not-found error and change no row, whatever the other argument is; on an
\* existing mailbox each changes that mailbox's row only.
C20_NotFoundOnValidEmail ==
  [][\A e \in ApiEmails :
       (apiCalls' = apiCalls + 1 /\ reply'.op \in RowMethods /\ reply'.args[1] = e)
         => IF ~mail_users[e].present
            THEN /\ ~reply'.ok
                 /\ reply'.err = Some("Mailbox not found")
                 /\ mail_users' = mail_users
            ELSE \A o \in ApiEmails \ {e} : mail_users'[o] = mail_users[o]]_vars

\* C20, amended: the four methods, called with a well-formed email and a second
\* argument that passes validation (quota > 0, password of 8 characters or
\* more), fail with a not-found error and change no row when the email has no
\* row in mail_users, and otherwise return having changed that mailbox's row
\* only; with a second argument that fails validation they change no row at all.
C20_NotFoundAfterValidation ==
  [][\A e \in ApiEmails :
       (apiCalls' = apiCalls + 1 /\ reply'.op \in RowMethods /\ reply'.args[1] = e)
         => /\ UNCHANGED << mail_domains, fsVars >>
            /\ \A o \in ApiEmails \ {e} : mail_users'[o] = mail_users[o]
            /\ IF Malformed(reply')
               THEN reply'.err \in ValidationErrors /\ mail_users' = mail_users
               ELSE IF ~mail_users[e].present
               THEN /\ ~reply'.ok
                    /\ reply'.err = Some("Mailbox not found")
                    /\ mail_users' = mail_users
               ELSE /\ reply'.ok
                    /\ RowEffect(e)]_vars

\* a password reset was refused for a mailbox that does not exist while others do
C20_Witness ==
  /\ reply.op = "resetMailboxPassword"
  /\ reply.err = Some("Mailbox not found")
  /\ reply.args[1] \in ApiEmails
  /\ reply.args[2] = "n3wsecret"
  /\ ~reply.before.present
  /\ reply.changed = 0
  /\ \E o \in ApiEmails : mail_users[o].present

\* C21: every row of mail_users has active = true iff disabled_at is NULL.
\* setMailboxActive(email, false) that returns leaves the row inactive with
\* disabled_at = now, setMailboxActive(email, true) leaves it active with
\* disabled_at NULL, createMailbox that returns leaves it active with
\* disabled_at NULL, and no other Control API call changes either field of a
\* row it leaves in the table.
C21_ActiveIffNotStamped ==
  [][\A e \in ApiEmails :
       /\ mail_users[e].present
            => (mail_users[e].active <=> mail_users[e].disabled_at = Null)
       /\ mail_users'[e].present
            => (mail_users'[e].active <=> mail_users'[e].disabled_at = Null)
       /\ (Called("setMailboxActive") /\ reply'.ok /\ reply'.args = << e, FALSE >>)
            => (~mail_users'[e].active /\ mail_users'[e].disabled_at = Some(now))
       /\ (Called("setMailboxActive") /\ reply'.ok /\ reply'.args = << e, TRUE >>)
            => (mail_users'[e].active /\ mail_users'[e].disabled_at = Null)
       /\ (Called("createMailbox") /\ reply'.ok
             /\ reply'.args[1] = LocalPartOf(e) /\ reply'.args[2] = DomainOf(e))
            => (mail_users'[e].present /\ mail_users'[e].active
                  /\ mail_users'[e].disabled_at = Null)
       /\ (/\ mail_users[e].present /\ mail_users'[e].present
           /\ ~(Called("setMailboxActive") /\ reply'.args[1] = e)
           /\ ~(Called("createMailbox")
                  /\ reply'.args[1] = LocalPartOf(e) /\ reply'.args[2] = DomainOf(e)))
            => /\ mail_users'[e].active = mail_users[e].active
               /\ mail_users'[e].disabled_at = mail_users[e].disabled_at]_vars

\* one mailbox was disabled and is stamped, another one is active and not stamped
C21_Witness ==
  /\ reply.op = "setMailboxActive"
  /\ reply.ok
  /\ reply.args[2] = FALSE
  /\ ~mail_users[reply.args[1]].active
  /\ mail_users[reply.args[1]].disabled_at # Null
  /\ \E o \in ApiEmails :
       mail_users[o].present /\ mail_users[o].active /\ mail_users[o].disabled_at = Null

\* C22: a worker run changes the mail backend only through
\* setMailboxActive(email, false) for the mailbox of the event in hand. Every
\* step of a run leaves mail_domains, the key files and the selector map as
\* they were; it leaves mail_users as it was, except for the call, which sets
\* active = false and disabled_at = now on the offender's row and changes no
\* other field and no other row. No row appears or disappears, and no mailbox
\* becomes active.
C22_BackendOnlyThroughSetActive ==
  [][/\ UNCHANGED << mail_domains, fsVars >>
     /\ \A e \in ApiEmails :
          /\ mail_users'[e].present <=> mail_users[e].present
          /\ mail_users'[e] # mail_users[e]
               => /\ wpc = "set_active"
                  /\ e = Head(queue).userEmail
                  /\ setActiveCalls'[e] = setActiveCalls[e] + 1
                  /\ mail_users'[e] = [mail_users[e] EXCEPT !.active = FALSE,
                                                            !.disabled_at = Some(now)]
          /\ (mail_users[e].present /\ mail_users'[e].active) => mail_users[e].active]_vars

\* the worker disabled ops@example.org; the other rows are as provisioned
C22_Witness ==
  /\ setActiveCalls[OtherEmail] = 1
  /\ ~mail_users[OtherEmail].active
  /\ mail_users[OtherEmail].disabled_at # Null
  /\ mail_users[OtherEmail].quota_mb = DefaultQuotaMb
  /\ mail_users[OpsEmail] = ProvisionedMailbox(OpsEmail, TRUE)
  /\ mail_users[DevEmail] = ProvisionedMailbox(DevEmail, FALSE)
  /\ ~mail_users[OtherDevEmail].present
  /\ wpc = "idle"

MapLines == IF selectorMap = Null THEN << >> ELSE selectorMap[1]
LinesOf(lines, d) == SelectSeq(lines, LAMBDA l : l[1] = d)

\* C23: after any sequence of updateDkimSelectorMap calls from a missing or an
\* empty map file, the map has at most one line per domain, it has the line
\* "domain selector" exactly when the latest call for the domain was made with
\* that selector and active = true, and a call for one domain leaves the lines
\* of every other domain, and their order, as they were.
C23_OneLinePerDomain ==
  [][\A d \in DomainNames :
       /\ Len(LinesOf(MapLines', d)) <= 1
       /\ \A sel \in Selectors :
            (\E i \in DOMAIN MapLines' : MapLines'[i] = << d, sel >>)
              <=> LatestMapCall(d)' = Some(<< sel, TRUE >>)
       /\ reply'.op = "updateDkimSelectorMap"
            => /\ selectorMap' # Null
               /\ d # reply'.args[1] =>
                    /\ LinesOf(MapLines', d) = LinesOf(MapLines, d)
                    /\ \A o \in DomainNames \ {d, reply'.args[1]} :
                         SelectSeq(MapLines', LAMBDA l : l[1] \in {d, o})
                           = SelectSeq(MapLines, LAMBDA l : l[1] \in {d, o})]_vars

\* a domain was switched to the second selector, another one was added and removed,
\* a third one is in the map
C23_Witness ==
  /\ apiCalls = MaxApiCalls
  /\ MapLines = << << OtherDomain, dkimSelector >>, << ExampleDomain, "s2" >> >>
  /\ LatestMapCall(BadDomain) = Some(<< dkimSelector, FALSE >>)

\* the row of d agrees with the key file and the selector map: its key fields
\* are those of the domain's key file, and the map has the line "d selector"
\* exactly when the row is active and not soft-deleted
RowConsistent(d) ==
  LET row == mail_domains[d]
      live == row.present /\ row.active /\ row.deleted_at = Null
  IN /\ row.present
          => /\ keyFiles[d] # Null
             /\ row.dkim_public_key = DkimTxt(keyFiles[d][1])
             /\ row.dkim_private_key_path = KeyPath(d, row.dkim_selector)
     /\ live => LinesOf(MapLines, d) = << << d, row.dkim_selector >> >>
     /\ ~live => LinesOf(MapLines, d) = << >>

\* C24: createDomain writes the row of mail_domains only after the key material
\* was obtained: when ensureDkimKey fails the row is as it was; and a
\* createDomain that fails at any step (key material, upsert, selector-map
\* rewrite, reload) leaves the row in agreement with the key file and the
\* selector map whenever it was in agreement before.
C24_NoInconsistentUpsert ==
  [][\A d \in ApiDomains :
       (Called("createDomain") /\ reply'.args[1] = d /\ ~reply'.ok)
         => /\ reply'.err = Some("key material")
                 => UNCHANGED << mail_domains, fsVars >>
            /\ RowConsistent(d) => RowConsistent(d)']_vars


StorageOps == {"getMailboxStats", "purgeMailboxStorage"}
JsonObjects == {FailJson, OkJson}
\* the command's run is one the contract calls a failure
FailedRun(run) ==
  LET lines == SelectSeq(run.stdout, LAMBDA line : line # "  ")
  IN \/ run.error
     \/ run.status # Some(0)
     \/ lines = << >>
     \/ lines[Len(lines)] \notin JsonObjects
     \/ lines[Len(lines)] = FailJson

\* C25: a delegated storage command (stats or purge) that exits non-zero, prints
\* nothing, or whose last non-empty output line is not a JSON object or is one
\* with ok = false makes the operation fail with an error, never a success result.
C25_DelegatedFailureIsError ==
  (reply.op \in StorageOps /\ reply.delegated /\ FailedRun(reply.run)) => ~reply.ok

\* C26: in direct mode, for a mailbox whose storage directory does not exist,
\* getMailboxStats returns usedBytes = 0, inboxCount = 0 and sentCount = 0 without
\* error, and purgeMailboxStorage succeeds with deletedFiles = 0 and
\* deletedBytes = 0 and deletes nothing.
C26_MissingDirectoryIsEmpty ==
  [][\A e \in ApiEmails :
       (/\ apiCalls' = apiCalls + 1
        /\ reply'.op \in StorageOps
        /\ ~reply'.delegated
        /\ reply'.args = << e >>
        /\ maildir[e] = Null)
         => /\ reply'.ok
            /\ reply'.op = "getMailboxStats" =>
                 /\ reply'.value.usedBytes = 0
                 /\ reply'.value.inboxCount = 0
                 /\ reply'.value.sentCount = 0
            /\ reply'.op = "purgeMailboxStorage" =>
                 /\ reply'.value.deletedFiles = 0
                 /\ reply'.value.deletedBytes = 0
                 /\ maildir' = maildir]_vars
C26_Witness ==
  /\ reply.op = "purgeMailboxStorage"
  /\ ~reply.delegated
  /\ reply.args = << OpsEmail >>
  /\ reply.before = Null
  /\ reply.ok
  /\ reply.value.deletedFiles = 0
  /\ maildir[OpsEmail] = Null
  /\ mailboxStatsCmd = ""

\* C27: every newly inserted RateLimitEvent is itself counted in the rolling
\* window count used for its enforcement decision (count >= 1), so the count
\* sends it to the warning branch (count = 1) or to the disable branch
\* (count >= 2, a no-op there when the mailbox is already disabled); no new
\* event is recorded without an enforcement decision.
C27_NewEventIsCounted ==
  [][(wpc = "insert" /\ Len(rate_limit_events') = Len(rate_limit_events) + 1)
       => LET email == Head(queue).userEmail
          IN /\ WindowCount(rate_limit_events', email) >= 1
             /\ CountBranch(WindowCount(rate_limit_events', email))
                  \in {"warn_state", "sel_state"}]_vars

\* a run of the worker ends with its last processEvent call returning
RunCompletes ==
  /\ wpc # "idle"
  /\ wpc' = "idle"
  /\ InsertEvent \/ CountEvents \/ WarnAudit \/ SelectState \/ DisableAudit
\* the row's event was enforced: it carries the stamp of its transition, or its
\* mailbox is disabled, or it is older than the rolling window
RowSettled(i) ==
  LET r == rate_limit_events[i]
  IN \/ r.warned_at # Null
     \/ r.disabled_at # Null
     \/ AlreadyDisabled(mailbox_state[r.user_email])
     \/ ~InWindow(r.event_time)

\* C28: nothing is lost by failures: when processing of an event failed after
\* its RateLimitEvent row was inserted, a later successful run over the same log
\* lines brings MailboxState and the event's stamp to what they would have been,
\* so after every successful run each recorded event of the window is enforced.
C28_NothingLostByFailure ==
  [][RunCompletes => \A i \in DOMAIN rate_limit_events' : RowSettled(i)']_vars

\* a row without its stamps
RowData(r) == [r EXCEPT !.warned_at = Null, !.disabled_at = Null]

WorkerAudits(action, email) ==
  Cardinality({i \in DOMAIN audit_logs :
                 /\ audit_logs[i].actor = "system-worker"
                 /\ audit_logs[i].action = action
                 /\ audit_logs[i].target_id = email})
\* the transitions made so far on a mailbox no administrator has touched: every
\* warning transition counts up warn_count, and the disable transition is final
WarningTransitions(email) ==
  IF mailbox_state[email].present THEN mailbox_state[email].warn_count ELSE 0
DisableTransitions(email) ==
  IF AlreadyDisabled(mailbox_state[email]) THEN 1 ELSE 0

\* C30: the worker emits exactly one "mailbox_warned" audit record per warning
\* transition and exactly one "mailbox_disabled" record per disable transition,
\* in the processEvent call that made the transition, and none for duplicate
\* events or events of an already disabled mailbox: between processEvent calls
\* the records of each mailbox are as many as its transitions.
C30_OneAuditPerTransition ==
  wpc \in {"idle", "insert"} =>
    \A e \in DOMAIN mailbox_state :
      /\ WorkerAudits("mailbox_warned", e) = WarningTransitions(e)
      /\ WorkerAudits("mailbox_disabled", e) = DisableTransitions(e)

\* the step is a request of the administrator (each one writes an audit record)
AdminStep ==
  /\ Len(audit_logs') = Len(audit_logs) + 1
  /\ audit_logs'[Len(audit_logs')].actor = Admin
EnableStep(email) ==
  /\ AdminStep
  /\ audit_logs'[Len(audit_logs')].action = "mailbox_enable"
  /\ audit_logs'[Len(audit_logs')].status = "success"
  /\ audit_logs'[Len(audit_logs')].target_id = email
WarnCountOf(row) == IF row.present THEN row.warn_count ELSE 0

C32_IndependentColumns ==
  [][\A e \in ApiEmails :
       (/\ apiCalls' = apiCalls + 1
        /\ reply'.op \in {"setMailboxQuota", "resetMailboxPassword", "setMailboxActive"}
        /\ reply'.args[1] = e
        /\ mail_users[e].present)
         => /\ mail_users'[e].present
            /\ reply'.op \in {"setMailboxQuota", "resetMailboxPassword"} =>
                 /\ mail_users'[e].active = mail_users[e].active
                 /\ mail_users'[e].disabled_at = mail_users[e].disabled_at
            /\ reply'.op = "setMailboxActive" =>
                 /\ mail_users'[e].quota_mb = mail_users[e].quota_mb
                 /\ mail_users'[e].password_hash = mail_users[e].password_hash
            /\ \A o \in ApiEmails \ {e} : mail_users'[o] = mail_users[o]]_vars
\* the password of a disabled mailbox was reset and the mailbox is still disabled
C32_Witness ==
  /\ reply.op = "resetMailboxPassword"
  /\ reply.ok
  /\ reply.before.present /\ ~reply.before.active
  /\ mail_users[reply.args[1]].password_hash # reply.before.password_hash
  /\ ~mail_users[reply.args[1]].active
  /\ mail_users[reply.args[1]].disabled_at # Null

\* C33: createMailbox for an email that already has a row in mail_users, under an
\* active, non-deleted domain and with a valid payload, succeeds as an upsert:
\* the row takes the display name, password hash and quota of the call and is
\* left with active = true and disabled_at NULL whatever its flag was, and it
\* stays the one row of that email (no other row changes).
C33_CreateIsUpsert ==
  [][\A l \in LocalPartInputs, d \in ApiDomains :
       LET e == l \o "@" \o d
       IN (/\ Called("createMailbox")
           /\ reply'.args[1] = l /\ reply'.args[2] = d
           /\ l # ""
           /\ Len(reply'.args[4]) >= MinPasswordLen /\ reply'.args[5] > 0
           /\ UsableDomain(mail_domains[d])
           /\ mail_users[e].present)
            => /\ reply'.ok
               /\ mail_users'[e] =
                    [present |-> TRUE, domain_name |-> d, local_part |-> l,
                     display_name |-> reply'.args[3],
                     password_hash |-> << "bcrypt", BcryptCost, reply'.args[4] >>,
                     quota_mb |-> reply'.args[5], active |-> TRUE, disabled_at |-> Null]
               /\ \A o \in ApiEmails \ {e} : mail_users'[o] = mail_users[o]]_vars
\* a disabled mailbox with another password was created again
C33_Witness ==
  /\ reply.op = "createMailbox"
  /\ reply.ok
  /\ reply.row.present /\ ~reply.row.active /\ reply.row.disabled_at # Null
  /\ reply.row.password_hash # << "bcrypt", BcryptCost, reply.args[4] >>
  /\ mail_users[reply.args[1] \o "@" \o reply.args[2]].active

\* C34: re-adding a domain: a successful createDomain on a soft-deleted domain
\* clears deleted_at and sets active = true on the domain's one row, after which
\* getDkim and createMailbox for that domain succeed again; the mailboxes
\* deleted by the earlier deleteDomain are not restored (the domain has none).
C34_ReAddDomain ==
  [][\A d \in ApiDomains :
       (/\ Called("createDomain")
        /\ reply'.args[1] = d
        /\ reply'.ok
        /\ mail_domains[d].present /\ mail_domains[d].deleted_at # Null)
         => /\ mail_domains'[d].present
            /\ mail_domains'[d].active
            /\ mail_domains'[d].deleted_at = Null
            /\ \A o \in ApiDomains \ {d} : mail_domains'[o] = mail_domains[o]
            /\ getDkim(d)'.ok
            /\ createMailbox("ops", d, "Ops", "s3cretpw", DefaultQuotaMb)'.ok
            /\ mail_users' = mail_users
            /\ \A e \in ApiEmails : DomainOf(e) = d => ~mail_users'[e].present]_vars
\* a soft-deleted domain was added again while the other domain has a mailbox
C34_Witness ==
  /\ reply.op = "createDomain"
  /\ reply.ok
  /\ reply.before.present /\ ~reply.before.active /\ reply.before.deleted_at # Null
  /\ mail_domains[reply.args[1]].active
  /\ mail_domains[reply.args[1]].deleted_at = Null
  /\ \A e \in ApiEmails : DomainOf(e) = reply.args[1] => ~mail_users[e].present
  /\ \E e \in ApiEmails : mail_users[e].present

\* the texts that are the confirmation token once trimmed and upper-cased
ConfirmingTexts == {"DELETE", "delete", " delete ", "Delete"}

\* C35: the storage purge is executed only when the request carries the
\* confirmation token: for any purge request whose confirmation text (trimmed,
\* upper-cased) is not "DELETE", or whose email is malformed,
\* purgeMailboxStorage is not called, no file is deleted and nothing is audited.
C35_PurgeNeedsConfirmation ==
  [][(/\ apiCalls' = apiCalls + 1
      /\ reply'.op = "POST /mailboxes/:email/purge-storage"
      /\ \/ reply'.args[2] \notin ConfirmingTexts
         \/ reply'.args[1] \notin ApiEmails)
       => /\ ~reply'.called
          /\ ~reply'.ok
          /\ maildir' = maildir
          /\ audit_logs' = audit_logs]_vars
\* a purge request without the token was refused for a mailbox that holds
\* message files
C35_Witness ==
  /\ reply.op = "POST /mailboxes/:email/purge-storage"
  /\ reply.args = << OpsEmail, "yes" >>
  /\ ~reply.called
  /\ maildir[OpsEmail] # Null
  /\ MessageFiles(maildir[OpsEmail][1]) # {}

\* the two records of a mailbox agree on whether it is disabled
RecordsAgree(e) ==
  (mail_users[e].present /\ mailbox_state[e].present)
    => (~mail_users[e].active <=> mailbox_state[e].status = "disabled")

\* C36: in any interleaving of one worker enforcement (count >= 2 branch) and
\* one manual enable or manual disable of the same mailbox, with no call
\* failing, once both have finished the two records agree: mail_users.active is
\* false exactly when the status in mailbox_state is disabled.
C36_RecordsAgreeAfterRace ==
  (/\ wpc = "idle"
   /\ Len(rate_limit_events) = 2
   /\ AdminOps("mailbox") = 2)
    => RecordsAgree(OpsEmail)

\* C37: after every domain operation of the Control API has returned,
\* successfully or with an error at any step, the selector map and the identity
\* store agree: a domain has a line in the selector map exactly when its row in
\* mail_domains is active and not soft-deleted.
C37_MapAgreesWithDomains ==
  \A d \in ApiDomains : (LinesOf(MapLines, d) # << >>) <=> UsableDomain(mail_domains[d])

\* C38: in every reachable state a MailboxState row with status = warning has
\* warn_count >= 1, and the row a successful manual enable leaves is active with
\* warn_count = 0.
C38_WarnCountMatchesStatus ==
  [][\A e \in DOMAIN mailbox_state :
       LET new == mailbox_state'[e]
       IN /\ (new.present /\ new.status = "warning") => new.warn_count >= 1
          /\ EnableStep(e) =>
               new.present /\ new.status = "active" /\ new.warn_count = 0]_vars
\* a mailbox warned, enabled by hand and warned again a window later
C38_Witness ==
  /\ mailbox_state[OpsEmail].present
  /\ mailbox_state[OpsEmail].status = "warning"
  /\ mailbox_state[OpsEmail].warn_count = 1
  /\ Cardinality({i \in DOMAIN rate_limit_events : rate_limit_events[i].warned_at # Null}) = 2
  /\ \E i \in DOMAIN audit_logs :
       audit_logs[i].action = "mailbox_enable" /\ audit_logs[i].status = "success"

\* C39: in every reachable state a MailboxState row whose status is active or
\* warning has disabled_at = NULL, under any sequence of worker runs, manual
\* enable and disable and mailbox re-creation.
C39_DisabledAtOnlyWhileDisabled ==
  \A e \in DOMAIN mailbox_state :
    (mailbox_state[e].present /\ mailbox_state[e].status \in {"active", "warning"})
      => mailbox_state[e].disabled_at = Null

\* C40: start() is idempotent and stop() is effective: there is never a second
\* interval timer (one is live exactly while the timer field is set); the
\* start() that creates the timer invokes runOnce once, at once; stop() clears
\* the timer and leaves the run in flight alone; and no run is invoked while no
\* timer is live, except by the start() that creates one.
RunInvoked == lastRun' # lastRun \/ (~running /\ running')

C40_StartIdempotentStopEffective ==
  [][/\ intervals = (IF timer THEN 1 ELSE 0)
     /\ intervals' = (IF timer' THEN 1 ELSE 0)
     /\ intervals' > intervals
          => IF running
             THEN lastRun' = "skipped" /\ UNCHANGED << running, wpc, queue, loc >>
             ELSE /\ lastRun' = "started"
                  /\ queue' = CollectEvents
                  /\ running' = (queue' # << >>)
     /\ intervals' < intervals => UNCHANGED << running, wpc, queue, loc, lastRun >>
     /\ RunInvoked => intervals' > 0]_vars
\* stop() called while a run is in flight that a timer callback found running
C40_Witness ==
  /\ ~timer
  /\ intervals = 0
  /\ running
  /\ wpc = "count"
  /\ lastRun = "skipped"
====
